---------------------------- MODULE Spec2Model ----------------------------
(***************************************************************************)
(* A model of the ProgSnap2 converters of CSSPLICE/progsnap2:              *)
(*   src/converters/blockpy_to_progsnap2.py  (BlockPy JSON log)            *)
(*   src/converters/vpl_to_progsnap2.py      (VPL submission archive)      *)
(*                                                                         *)
(* Python values are represented as follows.                               *)
(*   None            the integer None (-1); CodeStateID, Score, Order and  *)
(*                   EventID are never negative in the program             *)
(*   ""  (the ParentEventID keyword of log_blockpy_event)  the integer     *)
(*                   Blank (-2); -1 is the "no Compile" value of the code  *)
(*   a JSON timestamp  a record [json, num, text]: a JSON number (num, in  *)
(*                   tenths of a second, so that 105 is 10.5), a JSON      *)
(*                   string (text) or JSON null                            *)
(*   an ISO-8601 ClientTimestamp  the whole second it denotes: isoformat() *)
(*                   strings have a fixed width, so Python's string        *)
(*                   comparison of two of them is the comparison of the    *)
(*                   seconds                                               *)
(*   an Event object  a record; main_table is the sequence of them         *)
(***************************************************************************)
EXTENDS Integers, Sequences, FiniteSets, TLC

VARIABLES
    MAX_EVENT_ID,   \* Event.MAX_EVENT_ID, the class-level counter
    main_table,     \* ProgSnap2.main_table of the current instance
    code_files,     \* ProgSnap2.code_files of the current instance
    CODE_ID,        \* ProgSnap2.CODE_ID of the current instance
    phase,          \* where load_blockpy_logs stands: loading, exported, failed
    log,            \* history: the records handed to log_blockpy_event in this run
    last,           \* history: the outcome of the latest log_blockpy_event call
    done,           \* history: the input and output of every completed run
    calls,          \* history: the log_code_state calls on this instance
    vpl_code_files, \* ProgSnap2.code_files of the VPL converter
    vpl_CODE_ID,    \* ProgSnap2.CODE_ID of the VPL converter
    vpl_calls,      \* history: the hash_code_directory calls on the VPL store
    vpl_EVENT_ID,   \* Event.EVENT_ID of the VPL converter, the class-level counter
    vpl_main_table, \* ProgSnap2.main_table of the VPL converter
    vpl_phase,      \* where load_vpl_logs stands: loading, exported
    vpl_log         \* history: every ProgSnap2 and Event object the VPL
                    \* converter constructed in this process, in order

vars == <<MAX_EVENT_ID, main_table, code_files, CODE_ID, phase, log, last, done,
          calls, vpl_code_files, vpl_CODE_ID, vpl_calls, vpl_EVENT_ID,
          vpl_main_table, vpl_phase, vpl_log>>

vplVars == <<vpl_code_files, vpl_CODE_ID, vpl_calls, vpl_EVENT_ID, vpl_main_table,
             vpl_phase, vpl_log>>

\* the variables of the BlockPy converter
blockpyVars == <<MAX_EVENT_ID, main_table, code_files, CODE_ID, phase, log, last,
                 done, calls>>

-----------------------------------------------------------------------------
(* Bounds of the model *)

\* records handed to log_blockpy_event in one run
MaxLog == 3

\* the same, where every kind of record is drawn
MaxMapperLog == 2

\* the same, where several conversions run in one process
MaxRerunLog == 2

\* conversions (load_blockpy_logs calls) in one process
MaxRuns == 2

\* records of one run, where the script runs twice on two logs
MaxIsolationLog == 2

\* submission directories of one VPL archive
MaxSubmissions == 2

\* direct calls of log_code_state / hash_code_directory on one store
MaxCalls == 4

-----------------------------------------------------------------------------
(* Python values *)

None == -1

Blank == -2

\* no value: the call was left by NameError
NameError == -3

ARBITRARY_EVENT_ORDER ==
    << "Session.Start", "X-File.Upload", "File.Edit", "Submit", "Compile",
       "Run.Program", "Compile.Error", "Feedback.Grade", "Intervention" >>

\* list.index: the first position of x in list, zero-based
index(list, x) == (CHOOSE i \in 1..Len(list) :
                      list[i] = x /\ \A j \in 1..(i-1) : list[j] # x) - 1

\* JSON timestamps
Num(tenths) == [json |-> "number", num |-> tenths, text |-> ""]

Str(s) == [json |-> "string", num |-> 0, text |-> s]

Null == [json |-> "null", num |-> 0, text |-> ""]

\* Python truthiness of a timestamp value: not record['timestamp']
Falsy(ts) == \/ ts.json = "null"
             \/ ts.json = "number" /\ ts.num = 0
             \/ ts.json = "string" /\ ts.text = ""

\* int() of the decimal strings the model uses
DecimalStrings == {"0", "10", "11"}

ParseInt(s) == CASE s = "0" -> 0 [] s = "10" -> 10 [] s = "11" -> 11

\* int() raises ValueError for a string that is not a decimal literal
ValueError(ts) == ts.json = "string" /\ ts.text \notin DecimalStrings

\* int(timestamp): truncation of a number, parsing of a string
int(ts) == IF ts.json = "number" THEN ts.num \div 10 ELSE ParseInt(ts.text)

\* datetime.fromtimestamp(int(timestamp)).isoformat()
blockpy_timestamp_to_iso8601(timestamp) == int(timestamp)

\* chomp_iso_time_decimal on the date_created of the model: the blank becomes
\* a T and the fraction is cut
chomp_iso_time_decimal(a_time) ==
    CASE a_time = "2018-10-31 12:02:25.5" -> "2018-10-31T12:02:25"
      [] a_time = "2018-10-31 12:02:25" -> "2018-10-31T12:02:25"
      [] OTHER -> a_time

-----------------------------------------------------------------------------
(* map_blockpy_event_to_progsnap *)

\* str.lower() on the action labels of the model
lower(s) == CASE s = "Complete|Good" -> "complete|good"
              [] s = "Syntax|Bad" -> "syntax|bad"
              [] s = "Editor Error" -> "editor error"
              [] s = "Analyzer|Hint" -> "analyzer|hint"
              [] s = "Runtime" -> "runtime"
              [] s = "Internal Error" -> "internal error"
              [] s = "Runtime|Zero" -> "runtime|zero"
              [] s = "COMPLETE|" -> "complete|"
              [] s = "No Errors" -> "no errors"
              [] OTHER -> s

\* str.startswith on lower-cased action labels of the model
startswith(s, prefix) ==
    CASE prefix = "analyzer|" -> s \in {"analyzer|", "analyzer|hint"}
      [] prefix = "syntax|" -> s \in {"syntax|", "syntax|bad"}
      [] prefix = "complete|" -> s \in {"complete|", "complete|good"}
      [] prefix = "runtime|" -> s \in {"runtime|", "runtime|zero"}

\* The three shapes of result: a dictionary or string (an event), None, a raise
Mapped(type, score) == [kind |-> "event", EventType |-> type, Score |-> score]

Ignored == [kind |-> "none", EventType |-> "", Score |-> None]

Unclassified == [kind |-> "raise", EventType |-> "", Score |-> None]

\* mutant: the click on the run button is logged as an event
map_editor_run_logged(action) ==
    CASE action = "load" -> Mapped("Session.Start", None)
      [] action = "reset" -> Mapped("File.Edit", None)
      [] action = "blocks" -> Mapped("X-View.Blocks", None)
      [] action = "text" -> Mapped("X-View.Text", None)
      [] action = "split" -> Mapped("X-View.Split", None)
      [] action = "instructor" -> Mapped("X-View.Settings", None)
      [] action = "history" -> Mapped("X-View.History", None)
      [] action = "trace" -> Mapped("X-View.Trace", None)
      [] action = "upload" -> Mapped("X-File.Upload", None)
      [] action = "download" -> Mapped("X-File.Download", None)
      [] action \in {"changeIP", "change"} -> Mapped("X-Session.Move", None)
      [] action = "import" -> Mapped("X-Dataset.Import", None)
      [] action \in {"run", "on_run"} -> Mapped("Run.Program", None)
      [] OTHER -> Unclassified

map_editor(action) ==
    CASE action = "load" -> Mapped("Session.Start", None)
      [] action = "reset" -> Mapped("File.Edit", None)
      [] action = "blocks" -> Mapped("X-View.Blocks", None)
      [] action = "text" -> Mapped("X-View.Text", None)
      [] action = "split" -> Mapped("X-View.Split", None)
      [] action = "instructor" -> Mapped("X-View.Settings", None)
      [] action = "history" -> Mapped("X-View.History", None)
      [] action = "trace" -> Mapped("X-View.Trace", None)
      [] action = "upload" -> Mapped("X-File.Upload", None)
      [] action = "download" -> Mapped("X-File.Download", None)
      [] action \in {"changeIP", "change"} -> Mapped("X-Session.Move", None)
      [] action = "import" -> Mapped("X-Dataset.Import", None)
      [] action \in {"run", "on_run"} -> Ignored
      [] OTHER -> Unclassified

\* line_finder.findall(body) on the bodies of the model
findall(body) == CASE body = "bad input on line 3" -> << "3" >>
                   [] OTHER -> << >>

\* action+"|"+body
Joined(action, body) == << action, "|", body >>

\* mutant: the action is compared as it is spelled
feedback_case_sensitive(action, body) ==
    IF startswith(action, "analyzer|")
    THEN [ EventType |-> "Intervention", InterventionType |-> "Analyzer",
           InterventionMessage |-> Joined(action, body) ]
    ELSE IF action = "editor error" \/ startswith(action, "syntax|")
    THEN [ EventType |-> "Compile.Error", CompileMessageType |-> action,
           CompileMessageData |-> body,
           SourceLocation |-> IF findall(body) # << >> THEN findall(body)[1] ELSE "" ]
    ELSE IF startswith(action, "complete|")
    THEN [ EventType |-> "Run.Program", ExecutionResult |-> "Success", Score |-> 1 ]
    ELSE IF startswith(action, "runtime|") \/ action = "runtime"
    THEN [ EventType |-> "Run.Program", ExecutionResult |-> "Error",
           ProgramErrorOutput |-> Joined(action, body) ]
    ELSE IF action = "internal error"
    THEN [ EventType |-> "Run.Program", ExecutionResult |-> "SystemError",
           ProgramErrorOutput |-> Joined(action, body) ]
    ELSE [ EventType |-> "Intervention", InterventionType |-> "Feedback",
           InterventionMessage |-> Joined(action, body) ]

\* the branch event == 'feedback': the dictionary it returns
feedback(action, body) ==
    IF startswith(lower(action), "analyzer|")
    THEN [ EventType |-> "Intervention", InterventionType |-> "Analyzer",
           InterventionMessage |-> Joined(action, body) ]
    ELSE IF lower(action) = "editor error" \/ startswith(lower(action), "syntax|")
    THEN [ EventType |-> "Compile.Error", CompileMessageType |-> action,
           CompileMessageData |-> body,
           SourceLocation |-> IF findall(body) # << >> THEN findall(body)[1] ELSE "" ]
    ELSE IF startswith(lower(action), "complete|")
    THEN [ EventType |-> "Run.Program", ExecutionResult |-> "Success", Score |-> 1 ]
    ELSE IF startswith(lower(action), "runtime|") \/ lower(action) = "runtime"
    THEN [ EventType |-> "Run.Program", ExecutionResult |-> "Error",
           ProgramErrorOutput |-> Joined(action, body) ]
    ELSE IF lower(action) = "internal error"
    THEN [ EventType |-> "Run.Program", ExecutionResult |-> "SystemError",
           ProgramErrorOutput |-> Joined(action, body) ]
    ELSE [ EventType |-> "Intervention", InterventionType |-> "Feedback",
           InterventionMessage |-> Joined(action, body) ]

\* the same branch, as the EventType and the Score that log_blockpy_event
\* hands to log_event
map_feedback(action) ==
    LET dictionary == feedback(action, "")
    IN  Mapped(dictionary.EventType,
               IF "Score" \in DOMAIN dictionary THEN dictionary.Score ELSE None)

\* mutant: a pair outside the table is ignored, not raised
map_blockpy_event_to_progsnap_lenient(event, action, body) ==
    IF event = "code" /\ action = "set" THEN Mapped("File.Edit", None)
    ELSE IF event = "engine" /\ action = "on_run" THEN Mapped("Compile", None)
    ELSE IF event = "editor" THEN map_editor(action)
    ELSE IF event = "trace_step" THEN Mapped("X-View.Step", None)
    ELSE IF event = "feedback" THEN map_feedback(action)
    ELSE Ignored

map_blockpy_event_to_progsnap(event, action, body) ==
    IF event = "code" /\ action = "set" THEN Mapped("File.Edit", None)
    ELSE IF event = "engine" /\ action = "on_run" THEN Mapped("Compile", None)
    ELSE IF event = "editor" THEN map_editor(action)
    ELSE IF event = "trace_step" THEN Mapped("X-View.Step", None)
    ELSE IF event = "feedback" THEN map_feedback(action)
    ELSE IF event \in {"engine", "instructor", "trace", "worked_examples"} THEN Ignored
    ELSE Unclassified

-----------------------------------------------------------------------------
(* Python dictionaries: functions with a finite domain *)

EmptyDict == <<>>

\* d[k] = v
Put(d, k, v) == [x \in (DOMAIN d) \cup {k} |-> IF x = k THEN v ELSE d[x]]

\* del d[k]
Del(d, k) == [x \in (DOMAIN d) \ {k} |-> d[x]]

\* d.get(k, default)
Get(d, k, default) == IF k \in DOMAIN d THEN d[k] ELSE default

-----------------------------------------------------------------------------
(* ProgSnap2: the code-state store *)

\* mutant: the lookup is left out, every call allocates
hash_code_directory_no_lookup(files, id, code) ==
    [CodeStateID |-> id, code_files |-> Put(files, code, id), CODE_ID |-> id + 1]

\* hash_code_directory(code) on a store (files, id): the returned CodeStateID
\* and the store after the call
hash_code_directory(files, id, code) ==
    IF code \in DOMAIN files
    THEN [CodeStateID |-> files[code], code_files |-> files, CODE_ID |-> id]
    ELSE [CodeStateID |-> id, code_files |-> Put(files, code, id), CODE_ID |-> id + 1]

\* mutant: the counter moves on a hit too
vpl_hash_code_directory_counts_hits(files, id, code) ==
    IF code \in DOMAIN files
    THEN [CodeStateID |-> files[code], code_files |-> files, CODE_ID |-> id + 1]
    ELSE [CodeStateID |-> id, code_files |-> Put(files, code, id), CODE_ID |-> id + 1]

\* hash_code_directory of the VPL converter: the same code, keyed by tuples
vpl_hash_code_directory(files, id, code) ==
    IF code \in DOMAIN files
    THEN [CodeStateID |-> files[code], code_files |-> files, CODE_ID |-> id]
    ELSE [CodeStateID |-> id, code_files |-> Put(files, code, id), CODE_ID |-> id + 1]

\* mutant: the content gets a number, the store does not get the content
log_code_state_unstored(files, id, submission) ==
    [CodeStateID |-> id, code_files |-> files, CODE_ID |-> id + 1]

\* log_code_state(submission), the isinstance(submission, str) branch: the
\* caller log_blockpy_event passes the record's body
log_code_state(files, id, submission) == hash_code_directory(files, id, submission)

\* the key tuple(): it equals no string
EmptyTuple == "tuple()"

\* log_code_state(submission), the other branch: submission is a dictionary,
\* here the listing of its items. The loop body reads the name zipped, which
\* is neither a parameter nor a global of the module, so the first item
\* raises NameError; with no item, code is the empty tuple
log_code_state_items(files, id, submission) ==
    IF submission = <<>>
    THEN hash_code_directory(files, id, EmptyTuple)
    ELSE [CodeStateID |-> NameError, code_files |-> files, CODE_ID |-> id]

-----------------------------------------------------------------------------
(* Event *)

\* Event.__init__ as log_blockpy_event calls it through log_event; kwargs is
\* the set of the keys of _optional_parameters, ParentEventID the value of
\* that keyword (and of the attribute finalize_table sets later); rec is a
\* history field: the position in log of the record the event was made from
Event(ClientTimestamp, SubjectID, EventType, AssignmentID, ServerTimestamp, Score, CodeStateID, ParentEventID, kwargs, EventID, rec) ==
    [ ClientTimestamp |-> ClientTimestamp,
      ServerTimestamp |-> ServerTimestamp,
      optional_parameters |-> kwargs,
      SubjectID |-> SubjectID,
      AssignmentID |-> AssignmentID,
      EventType |-> EventType,
      CodeStateID |-> CodeStateID,
      Score |-> Score,
      ParentEventID |-> ParentEventID,
      EventID |-> EventID,
      Order |-> None,
      rec |-> rec ]

\* mutant: Order is set only together with a CodeStateID
set_ordering_with_code_only(event, Order, CodeStateID) ==
    IF CodeStateID # None
    THEN [event EXCEPT !.Order = Order, !.CodeStateID = CodeStateID]
    ELSE event

\* Event.set_ordering
set_ordering(event, Order, CodeStateID) ==
    IF CodeStateID # None
    THEN [event EXCEPT !.Order = Order, !.CodeStateID = CodeStateID]
    ELSE [event EXCEPT !.Order = Order]

\* mutant: the event type is left out of the key
get_order_timestamp_only(event) == << event.ClientTimestamp, 0 >>

\* Event.get_order: the sort key, a pair
get_order(event) ==
    IF \E i \in 1..Len(ARBITRARY_EVENT_ORDER) : ARBITRARY_EVENT_ORDER[i] = event.EventType
    THEN << event.ClientTimestamp, index(ARBITRARY_EVENT_ORDER, event.EventType) >>
    ELSE << event.ClientTimestamp, Len(ARBITRARY_EVENT_ORDER) >>

\* Python's < on pairs
TupleLess(a, b) == a[1] < b[1] \/ (a[1] = b[1] /\ a[2] < b[2])

\* mutant: a sort that is not stable; an element is put in front of the earlier
\* elements whose key equals its own
RECURSIVE list_sort_ties_reversed(_)
list_sort_ties_reversed(table) ==
    IF Len(table) <= 1 THEN table
    ELSE LET front == list_sort_ties_reversed(SubSeq(table, 1, Len(table) - 1))
             event == table[Len(table)]
             k == Cardinality({i \in 1..Len(front) :
                      TupleLess(get_order(front[i]), get_order(event))})
         IN  SubSeq(front, 1, k) \o <<event>> \o SubSeq(front, k + 1, Len(front))

\* list.sort(key=Event.get_order): a stable sort. Each element is put behind
\* every earlier element whose key is not greater than its own.
RECURSIVE list_sort(_)
list_sort(table) ==
    IF Len(table) <= 1 THEN table
    ELSE LET front == list_sort(SubSeq(table, 1, Len(table) - 1))
             event == table[Len(table)]
             k == Cardinality({i \in 1..Len(front) :
                      ~TupleLess(get_order(event), get_order(front[i]))})
         IN  SubSeq(front, 1, k) \o <<event>> \o SubSeq(front, k + 1, Len(front))

-----------------------------------------------------------------------------
(* ProgSnap2.finalize_table, one operator per loop of the method *)

\* mutant: the subject is left out of the key
identifier_assignment_only(event) == << "", event.AssignmentID >>

identifier(event) == << event.SubjectID, event.AssignmentID >>

\* mutant: the pending upload is not cleared once matched
RECURSIVE fix_uploads_not_cleared(_, _, _, _, _)
fix_uploads_not_cleared(table, i, remapped_uploads, FOUND_UPLOADS, REMAPPED_UPLOADS) ==
    IF i > Len(table)
    THEN [ table |-> table, remapped_uploads |-> remapped_uploads,
           FOUND_UPLOADS |-> FOUND_UPLOADS, REMAPPED_UPLOADS |-> REMAPPED_UPLOADS ]
    ELSE LET event == table[i]
         IN  IF event.EventType = "X-File.Upload"
             THEN fix_uploads_not_cleared(table, i + 1,
                      Put(remapped_uploads, identifier(event), i),
                      FOUND_UPLOADS + 1, REMAPPED_UPLOADS)
             ELSE IF event.EventType = "File.Edit"
                     /\ identifier(event) \in DOMAIN remapped_uploads
             THEN fix_uploads_not_cleared(
                      [table EXCEPT ![remapped_uploads[identifier(event)]].CodeStateID =
                                        event.CodeStateID],
                      i + 1, remapped_uploads, FOUND_UPLOADS, REMAPPED_UPLOADS + 1)
             ELSE fix_uploads_not_cleared(table, i + 1, remapped_uploads,
                                          FOUND_UPLOADS, REMAPPED_UPLOADS)

\* "Fixing any Upload events to happen BEFORE the next File.Edit"
\* remapped_uploads maps a partition to the row of its pending upload
RECURSIVE fix_uploads(_, _, _, _, _)
fix_uploads(table, i, remapped_uploads, FOUND_UPLOADS, REMAPPED_UPLOADS) ==
    IF i > Len(table)
    THEN [ table |-> table, remapped_uploads |-> remapped_uploads,
           FOUND_UPLOADS |-> FOUND_UPLOADS, REMAPPED_UPLOADS |-> REMAPPED_UPLOADS ]
    ELSE LET event == table[i]
         IN  IF event.EventType = "X-File.Upload"
             THEN fix_uploads(table, i + 1, Put(remapped_uploads, identifier(event), i),
                              FOUND_UPLOADS + 1, REMAPPED_UPLOADS)
             ELSE IF event.EventType = "File.Edit"
                     /\ identifier(event) \in DOMAIN remapped_uploads
             THEN fix_uploads(
                      [table EXCEPT ![remapped_uploads[identifier(event)]].CodeStateID =
                                        event.CodeStateID],
                      i + 1, Del(remapped_uploads, identifier(event)),
                      FOUND_UPLOADS, REMAPPED_UPLOADS + 1)
             ELSE fix_uploads(table, i + 1, remapped_uploads,
                              FOUND_UPLOADS, REMAPPED_UPLOADS)

\* mutant: no initial code state is found, every partition starts from 0
find_first_code_states_none(table, i, first_code_states) == first_code_states

\* "Finding initial code states"
RECURSIVE find_first_code_states(_, _, _)
find_first_code_states(table, i, first_code_states) ==
    IF i > Len(table) THEN first_code_states
    ELSE LET event == table[i]
         IN  IF identifier(event) \in DOMAIN first_code_states
             THEN find_first_code_states(table, i + 1, first_code_states)
             ELSE IF event.CodeStateID # None
             THEN find_first_code_states(table, i + 1,
                      Put(first_code_states, identifier(event), event.CodeStateID))
             ELSE find_first_code_states(table, i + 1, first_code_states)

\* mutant: the EventID of the Compile is written over that of the Compile.Error
RECURSIVE attach_compile_errors_writes_EventID(_, _, _)
attach_compile_errors_writes_EventID(table, i, previous_compile) ==
    IF i > Len(table) THEN table
    ELSE LET event == table[i]
         IN  IF event.EventType = "Compile"
             THEN attach_compile_errors_writes_EventID(table, i + 1,
                      Put(previous_compile, identifier(event), event.EventID))
             ELSE IF event.EventType = "Compile.Error"
             THEN attach_compile_errors_writes_EventID(
                      [table EXCEPT ![i].EventID =
                                        Get(previous_compile, identifier(event), -1)],
                      i + 1, previous_compile)
             ELSE attach_compile_errors_writes_EventID(table, i + 1, previous_compile)

\* mutant: the latest Compile is kept for all partitions together
RECURSIVE attach_compile_errors_any_partition(_, _, _)
attach_compile_errors_any_partition(table, i, previous_compile) ==
    IF i > Len(table) THEN table
    ELSE LET event == table[i]
         IN  IF event.EventType = "Compile"
             THEN attach_compile_errors_any_partition(table, i + 1,
                      Put(previous_compile, "any", event.EventID))
             ELSE IF event.EventType = "Compile.Error"
             THEN attach_compile_errors_any_partition(
                      [table EXCEPT ![i].ParentEventID =
                                        Get(previous_compile, "any", -1)],
                      i + 1, previous_compile)
             ELSE attach_compile_errors_any_partition(table, i + 1, previous_compile)

\* "Attaching parent Compile events to Compile.Error events"
RECURSIVE attach_compile_errors(_, _, _)
attach_compile_errors(table, i, previous_compile) ==
    IF i > Len(table) THEN table
    ELSE LET event == table[i]
         IN  IF event.EventType = "Compile"
             THEN attach_compile_errors(table, i + 1,
                      Put(previous_compile, identifier(event), event.EventID))
             ELSE IF event.EventType = "Compile.Error"
             THEN attach_compile_errors(
                      [table EXCEPT ![i].ParentEventID =
                                        Get(previous_compile, identifier(event), -1)],
                      i + 1, previous_compile)
             ELSE attach_compile_errors(table, i + 1, previous_compile)

\* mutant: one carried score for all partitions together
RECURSIVE fix_order_shared_score(_, _, _, _, _)
fix_order_shared_score(table, i, first_code_states, code_states, score_state) ==
    IF i > Len(table) THEN table
    ELSE LET event == table[i]
             first == Get(first_code_states, identifier(event), 0)
             carried_code == Get(code_states, identifier(event), first)
             carried_score == Get(score_state, "any", 0)
             current_score_state == IF event.Score = None THEN carried_score
                                    ELSE event.Score
             current_code_state == IF event.CodeStateID = None THEN carried_code
                                   ELSE event.CodeStateID
             scored == [event EXCEPT !.Score = current_score_state]
             ordered == IF event.CodeStateID = None
                        THEN set_ordering(scored, i - 1, carried_code)
                        ELSE set_ordering(scored, i - 1, None)
         IN  fix_order_shared_score([table EXCEPT ![i] = ordered], i + 1,
                              Put(first_code_states, identifier(event), first),
                              Put(code_states, identifier(event), current_code_state),
                              Put(score_state, "any", current_score_state))

\* mutant: one carried code state for all partitions together
RECURSIVE fix_order_shared(_, _, _, _, _)
fix_order_shared(table, i, first_code_states, code_states, score_state) ==
    IF i > Len(table) THEN table
    ELSE LET event == table[i]
             first == Get(first_code_states, identifier(event), 0)
             carried_code == Get(code_states, "any", first)
             carried_score == Get(score_state, identifier(event), 0)
             current_score_state == IF event.Score = None THEN carried_score
                                    ELSE event.Score
             current_code_state == IF event.CodeStateID = None THEN carried_code
                                   ELSE event.CodeStateID
             scored == [event EXCEPT !.Score = current_score_state]
             ordered == IF event.CodeStateID = None
                        THEN set_ordering(scored, i - 1, carried_code)
                        ELSE set_ordering(scored, i - 1, None)
         IN  fix_order_shared([table EXCEPT ![i] = ordered], i + 1,
                              Put(first_code_states, identifier(event), first),
                              Put(code_states, "any", current_code_state),
                              Put(score_state, identifier(event), current_score_state))

\* mutant: code_states is never written, the carried code state stays the first
RECURSIVE fix_order_stale(_, _, _, _, _)
fix_order_stale(table, i, first_code_states, code_states, score_state) ==
    IF i > Len(table) THEN table
    ELSE LET event == table[i]
             first == Get(first_code_states, identifier(event), 0)
             carried_code == Get(code_states, identifier(event), first)
             carried_score == Get(score_state, identifier(event), 0)
             current_score_state == IF event.Score = None THEN carried_score
                                    ELSE event.Score
             scored == [event EXCEPT !.Score = current_score_state]
             ordered == IF event.CodeStateID = None
                        THEN set_ordering(scored, i - 1, carried_code)
                        ELSE set_ordering(scored, i - 1, None)
         IN  fix_order_stale([table EXCEPT ![i] = ordered], i + 1,
                             Put(first_code_states, identifier(event), first),
                             code_states,
                             Put(score_state, identifier(event), current_score_state))

\* "Fixing order/CodeStateID based on last File.Edit events"; order is i - 1
RECURSIVE fix_order(_, _, _, _, _)
fix_order(table, i, first_code_states, code_states, score_state) ==
    IF i > Len(table) THEN table
    ELSE LET event == table[i]
             first == Get(first_code_states, identifier(event), 0)
             carried_code == Get(code_states, identifier(event), first)
             carried_score == Get(score_state, identifier(event), 0)
             current_score_state == IF event.Score = None THEN carried_score
                                    ELSE event.Score
             current_code_state == IF event.CodeStateID = None THEN carried_code
                                   ELSE event.CodeStateID
             scored == [event EXCEPT !.Score = current_score_state]
             ordered == IF event.CodeStateID = None
                        THEN set_ordering(scored, i - 1, carried_code)
                        ELSE set_ordering(scored, i - 1, None)
         IN  fix_order([table EXCEPT ![i] = ordered], i + 1,
                       Put(first_code_states, identifier(event), first),
                       Put(code_states, identifier(event), current_code_state),
                       Put(score_state, identifier(event), current_score_state))

\* finalize_table: the sorted and back-filled main table. BAD_EVENTS stays
\* empty, so the closing filter removes nothing.
finalize_table(table) ==
    LET sorted == list_sort(table)
        uploads == fix_uploads(sorted, 1, EmptyDict, 0, 0)
        first_code_states == find_first_code_states(uploads.table, 1, EmptyDict)
        attached == attach_compile_errors(uploads.table, 1, EmptyDict)
    IN  fix_order(attached, 1, first_code_states, EmptyDict, EmptyDict)

-----------------------------------------------------------------------------
(* The VPL converter: Event, log_event, log_submit, log_ceg, finalize_table.
   A ServerTimestamp of the pattern YYYY-MM-DDTHH:MM:SS is represented by an
   integer: the strings have a fixed width, so they compare as the times do *)

\* Event.__init__ of the VPL converter; event_id is Event.EVENT_ID at the call
vpl_Event(server_timestamp, subject_id, event_type, optional_parameters, event_id) ==
    [ server_timestamp |-> server_timestamp,
      subject_id |-> subject_id,
      event_type |-> event_type,
      optional_parameters |-> optional_parameters,
      event_id |-> event_id,
      code_state_id |-> None,
      order |-> None ]

\* mutant: the counter is not moved
vpl_log_event_no_increment(table, EVENT_ID, when, subject_id, event_type, kwargs) ==
    [ main_table |-> Append(table, vpl_Event(when, subject_id, event_type, kwargs,
                                             EVENT_ID)),
      EVENT_ID |-> EVENT_ID,
      new_event |-> Len(table) + 1 ]

\* ProgSnap2.log_event on (main_table, Event.EVENT_ID): the table and the
\* counter after the call, and the new event's place in the table
vpl_log_event(table, EVENT_ID, when, subject_id, event_type, kwargs) ==
    [ main_table |-> Append(table, vpl_Event(when, subject_id, event_type, kwargs,
                                             EVENT_ID)),
      EVENT_ID |-> EVENT_ID + 1,
      new_event |-> Len(table) + 1 ]

\* Python's order of the file names of the model
FileNames == << "a.py", "b.py" >>

\* < on (filename, contents) pairs; a directory holds a file name once, so
\* the file names decide
pair_less(a, b) == index(FileNames, a[1]) < index(FileNames, b[1])

\* mutant: the pairs are kept in the order of the directory listing
unsorted(code) == code

\* sorted(code)
RECURSIVE sorted(_)
sorted(code) ==
    IF Len(code) <= 1 THEN code
    ELSE LET front == sorted(SubSeq(code, 1, Len(code) - 1))
             pair == code[Len(code)]
             k == Cardinality({i \in 1..Len(front) : ~pair_less(pair, front[i])})
         IN  SubSeq(front, 1, k) \o <<pair>> \o SubSeq(front, k + 1, Len(front))

\* ProgSnap2.log_submit: a Submit event whose code_state_id is set from the
\* store; submission_directory is the listing of (filename, contents) pairs
log_submit(table, EVENT_ID, files, id, when, subject_id, submission_directory) ==
    LET logged == vpl_log_event(table, EVENT_ID, when, subject_id, "Submit", EmptyDict)
        code == sorted(submission_directory)
        store == vpl_hash_code_directory(files, id, code)
    IN  [ main_table |-> [logged.main_table EXCEPT
                              ![logged.new_event].code_state_id = store.CodeStateID],
          EVENT_ID |-> logged.EVENT_ID,
          code_files |-> store.code_files,
          CODE_ID |-> store.CODE_ID,
          code |-> code,
          CodeStateID |-> store.CodeStateID,
          new_event |-> logged.new_event ]

\* mutant: the Feedback.Grade event is logged whether grade.txt is there or not
log_ceg_grade_always(table, EVENT_ID, student, timestamp, ceg_directory, parent_event) ==
    LET first == IF "execution.txt" \notin ceg_directory
                 THEN vpl_log_event(table, EVENT_ID, timestamp, student, "Compile.Error",
                          Put(Put(Put(EmptyDict, "CompileMessageType", "Error"),
                                  "CompileMessageData",
                                  IF "compilation.txt" \in ceg_directory
                                  THEN "compilation" ELSE ""),
                              "ParentEventID", parent_event))
                 ELSE vpl_log_event(table, EVENT_ID, timestamp, student, "Run.Program",
                          Put(Put(Put(EmptyDict, "InterventionType", "Feedback"),
                                  "InterventionMessage", "execution"),
                              "ParentEventID", parent_event))
    IN  vpl_log_event(first.main_table, first.EVENT_ID, timestamp, student,
            "Feedback.Grade",
            Put(Put(Put(EmptyDict, "InterventionType", "Grade"),
                    "InterventionMessage", "grade"),
                "ParentEventID", parent_event))

\* log_ceg: ceg_directory is the set of the file names of the .ceg directory,
\* parent_event the event_id of the submission
log_ceg(table, EVENT_ID, student, timestamp, ceg_directory, parent_event) ==
    LET first == IF "execution.txt" \notin ceg_directory
                 THEN vpl_log_event(table, EVENT_ID, timestamp, student, "Compile.Error",
                          Put(Put(Put(EmptyDict, "CompileMessageType", "Error"),
                                  "CompileMessageData",
                                  IF "compilation.txt" \in ceg_directory
                                  THEN "compilation" ELSE ""),
                              "ParentEventID", parent_event))
                 ELSE vpl_log_event(table, EVENT_ID, timestamp, student, "Run.Program",
                          Put(Put(Put(EmptyDict, "InterventionType", "Feedback"),
                                  "InterventionMessage", "execution"),
                              "ParentEventID", parent_event))
    IN  IF "grade.txt" \in ceg_directory
        THEN vpl_log_event(first.main_table, first.EVENT_ID, timestamp, student,
                 "Feedback.Grade",
                 Put(Put(Put(EmptyDict, "InterventionType", "Grade"),
                         "InterventionMessage", "grade"),
                     "ParentEventID", parent_event))
        ELSE first

\* mutant: the code state handed over is dropped
vpl_set_ordering_order_only(event, order, code_state_id) == [event EXCEPT !.order = order]

\* Event.set_ordering of the VPL converter
vpl_set_ordering(event, order, code_state_id) ==
    IF code_state_id # None
    THEN [event EXCEPT !.order = order, !.code_state_id = code_state_id]
    ELSE [event EXCEPT !.order = order]

\* Event.get_order of the VPL converter
vpl_get_order(event) == event.server_timestamp

\* mutant: a sort that is not stable; an event is put in front of the earlier
\* events of the same timestamp
RECURSIVE vpl_list_sort_ties_reversed(_)
vpl_list_sort_ties_reversed(table) ==
    IF Len(table) <= 1 THEN table
    ELSE LET front == vpl_list_sort_ties_reversed(SubSeq(table, 1, Len(table) - 1))
             event == table[Len(table)]
             k == Cardinality({i \in 1..Len(front) :
                      vpl_get_order(front[i]) < vpl_get_order(event)})
         IN  SubSeq(front, 1, k) \o <<event>> \o SubSeq(front, k + 1, Len(front))

\* list.sort(key=Event.get_order), a stable sort
RECURSIVE vpl_list_sort(_)
vpl_list_sort(table) ==
    IF Len(table) <= 1 THEN table
    ELSE LET front == vpl_list_sort(SubSeq(table, 1, Len(table) - 1))
             event == table[Len(table)]
             k == Cardinality({i \in 1..Len(front) :
                      vpl_get_order(front[i]) <= vpl_get_order(event)})
         IN  SubSeq(front, 1, k) \o <<event>> \o SubSeq(front, k + 1, Len(front))

\* mutant: the carried code state is kept for all subjects together
RECURSIVE vpl_fix_order_shared(_, _, _)
vpl_fix_order_shared(table, i, subject_code_states) ==
    IF i > Len(table) THEN table
    ELSE LET event == table[i]
             carried == Get(subject_code_states, "any", 0)
             current_code_state == IF event.code_state_id = None THEN carried
                                   ELSE event.code_state_id
             ordered == IF event.code_state_id = None
                        THEN vpl_set_ordering(event, i - 1, carried)
                        ELSE vpl_set_ordering(event, i - 1, None)
         IN  vpl_fix_order_shared([table EXCEPT ![i] = ordered], i + 1,
                 Put(subject_code_states, "any", current_code_state))

\* the walk of finalize_table; order is i - 1
RECURSIVE vpl_fix_order(_, _, _)
vpl_fix_order(table, i, subject_code_states) ==
    IF i > Len(table) THEN table
    ELSE LET event == table[i]
             carried == Get(subject_code_states, event.subject_id, 0)
             current_code_state == IF event.code_state_id = None THEN carried
                                   ELSE event.code_state_id
             ordered == IF event.code_state_id = None
                        THEN vpl_set_ordering(event, i - 1, carried)
                        ELSE vpl_set_ordering(event, i - 1, None)
         IN  vpl_fix_order([table EXCEPT ![i] = ordered], i + 1,
                 Put(subject_code_states, event.subject_id, current_code_state))

\* ProgSnap2.finalize_table of the VPL converter
vpl_finalize_table(table) == vpl_fix_order(vpl_list_sort(table), 1, EmptyDict)

-----------------------------------------------------------------------------
(* export_main_table of the two converters: the header and the rows handed to
   the CSV writer. A cell of a row is represented by the parameter its value
   was taken from and by whether the value is the empty string. *)

ARBITRARY_COLUMN_ORDER ==
    << "EventID", "Order", "SubjectID", "AssignmentID", "CourseID", "EventType",
       "CodeStateID", "ParentEventID", "ClientTimestamp", "Score", "EditType",
       "CompileMessageType", "CompileMessageData", "SourceLocation",
       "ExecutionResult", "ProgramErrorOutput", "InterventionType",
       "InterventionMessage", "ServerTimestamp", "ToolInstances" >>

vpl_ARBITRARY_COLUMN_ORDER ==
    << "EventID", "Order", "SubjectID", "EventType", "CodeStateID",
       "ServerTimestamp", "ToolInstances" >>

\* Python's order of the parameter names of the model
ParameterNames ==
    << "AssignmentID", "ClientTimestamp", "CodeStateID", "CompileMessageData",
       "CompileMessageType", "CourseID", "EditType", "EventID", "EventType",
       "ExecutionResult", "InterventionMessage", "InterventionType", "Order",
       "ParentEventID", "ProgramErrorOutput", "Score", "ServerTimestamp",
       "SourceLocation", "SubjectID", "ToolInstances" >>

Range(list) == {list[i] : i \in 1..Len(list)}

Cell(parameter, empty) == [of |-> parameter, empty |-> empty]

\* Event.get_parameter_order: (place in the column order, name); the name is
\* represented by its place in Python's order of the names
get_parameter_order(parameter, column_order) ==
    IF parameter \in Range(column_order)
    THEN << index(column_order, parameter), index(ParameterNames, parameter) >>
    ELSE << Len(column_order), index(ParameterNames, parameter) >>

\* sorted(..., key=get_parameter_order) of distinct parameter names
RECURSIVE sorted_parameters(_, _)
sorted_parameters(parameters, column_order) ==
    IF parameters = {} THEN <<>>
    ELSE LET first == CHOOSE p \in parameters :
                          \A q \in parameters \ {p} :
                              TupleLess(get_parameter_order(p, column_order),
                                        get_parameter_order(q, column_order))
         IN  <<first>> \o sorted_parameters(parameters \ {first}, column_order)

\* the keys of the dictionary map_blockpy_event_to_progsnap returns, EventType
\* and Score aside: they are parameters of Event.__init__
dictionary_keys(progsnap_event) ==
    CASE progsnap_event.EventType = "File.Edit" -> {"EditType"}
      [] progsnap_event.EventType = "Compile.Error" ->
             {"CompileMessageType", "CompileMessageData", "SourceLocation"}
      [] progsnap_event.EventType = "Run.Program" /\ progsnap_event.Score = 1 ->
             {"ExecutionResult"}
      [] progsnap_event.EventType = "Run.Program" /\ progsnap_event.Score # 1 ->
             {"ExecutionResult", "ProgramErrorOutput"}
      [] progsnap_event.EventType = "Intervention" ->
             {"InterventionType", "InterventionMessage"}
      [] OTHER -> {}

\* the keys of Event._optional_parameters of the event made from a record:
\* the keywords log_blockpy_event passes that Event.__init__ does not name
optional_parameters(record) ==
    {"CourseID", "ParentEventID"}
        \cup dictionary_keys(map_blockpy_event_to_progsnap(record.event, record.action,
                                                            record.body))

\* the optional parameters whose value is the empty string: ParentEventID, and
\* SourceLocation, as no body of the model holds a line number
empty_parameters == {"ParentEventID", "SourceLocation"}

\* the columns an event has as attributes: those Event.__init__ sets, and
\* ParentEventID once finalize_table has set it on a Compile.Error
attributes(event) ==
    { "EventID", "Order", "SubjectID", "AssignmentID", "EventType", "CodeStateID",
      "ClientTimestamp", "Score", "ServerTimestamp", "ToolInstances" }
        \cup (IF event.ParentEventID # Blank THEN {"ParentEventID"} ELSE {})

\* Event.distill_parameters: the keys of the dictionary of defaults
distill_parameters(events) ==
    UNION { events[i].optional_parameters : i \in 1..Len(events) }

\* Event.finalize: the ordered values of one row
finalize(event, default_parameter_values) ==
    LET own == event.optional_parameters
        required_columns == attributes(event)
        parameter_values == default_parameter_values \cup own \cup required_columns
        sorted_names == sorted_parameters(parameter_values, ARBITRARY_COLUMN_ORDER)
    IN  [ k \in 1..Len(sorted_names) |->
            Cell(sorted_names[k],
                 IF sorted_names[k] \in required_columns THEN FALSE
                 ELSE IF sorted_names[k] \in own
                      THEN sorted_names[k] \in empty_parameters
                 ELSE TRUE) ]

\* ProgSnap2.export_main_table after finalize_table: the header row and the
\* rows of the events; the header is self.main_table_header, sorted
export_main_table(table) ==
    LET optionals == distill_parameters(table)
    IN  [ header |-> sorted_parameters(Range(ARBITRARY_COLUMN_ORDER),
                                       ARBITRARY_COLUMN_ORDER),
          rows |-> [ i \in 1..Len(table) |-> finalize(table[i], optionals) ] ]

\* Event.finalize of the VPL converter: the seven fixed values, then the
\* ordered values of the optional parameters
vpl_finalize(event, default_parameter_values) ==
    LET own == DOMAIN event.optional_parameters
        sorted_names == sorted_parameters(default_parameter_values \cup own,
                                          vpl_ARBITRARY_COLUMN_ORDER)
    IN  [ k \in 1..Len(vpl_ARBITRARY_COLUMN_ORDER) |->
              Cell(vpl_ARBITRARY_COLUMN_ORDER[k], FALSE) ]
        \o [ k \in 1..Len(sorted_names) |->
               Cell(sorted_names[k],
                    IF sorted_names[k] = "ParentEventID" /\ sorted_names[k] \in own
                    THEN FALSE \* an event_id, a number
                    ELSE IF sorted_names[k] \in own
                    THEN event.optional_parameters[sorted_names[k]] = ""
                    ELSE TRUE) ]

\* ProgSnap2.export_main_table of the VPL converter after finalize_table: the
\* header is self.main_table_header + list(optionals.keys()), sorted
vpl_export_main_table(table) ==
    LET optionals == UNION { DOMAIN table[i].optional_parameters : i \in 1..Len(table) }
    IN  [ header |-> sorted_parameters(Range(vpl_ARBITRARY_COLUMN_ORDER) \cup optionals,
                                       vpl_ARBITRARY_COLUMN_ORDER),
          rows |-> [ i \in 1..Len(table) |-> vpl_finalize(table[i], optionals) ] ]

-----------------------------------------------------------------------------
(* The inputs of the model *)

Bodies == {"", "print(1)", "print(2)"}

\* (user_id, assignment_id) of the records
Partitions == { <<"s1", "a1">>, <<"s2", "a1">> }

Record(event, action, body, timestamp, partition) ==
    [ event |-> event, action |-> action, body |-> body, timestamp |-> timestamp,
      date_created |-> "2018-10-31 12:02:25.5",
      user_id |-> partition[1], assignment_id |-> partition[2] ]

\* (event, action) pairs: an upload, a Compile, a successful run, a
\* Compile.Error and a view change (a type outside ARBITRARY_EVENT_ORDER)
TimelinePairs == { <<"editor", "upload">>, <<"engine", "on_run">>,
                   <<"feedback", "complete|">>, <<"feedback", "syntax|">>,
                   <<"editor", "blocks">> }

\* JSON numbers: 10 and 11 seconds
TimelineStamps == { Num(100), Num(110) }

\* the bodies of the edits of one conversion
TimelineBodies == {"print(1)", "print(2)"}

\* the records of one conversion: edits with two bodies, and the pairs above
TimelineRecords ==
    { Record("code", "set", b, t, p) : b \in TimelineBodies, t \in TimelineStamps,
                                       p \in Partitions }
    \cup
    { Record(ea[1], ea[2], "", t, p) : ea \in TimelinePairs, t \in TimelineStamps,
                                        p \in Partitions }

\* the records of a conversion with uploads: uploads and edits of the two
\* partitions
UploadRecords ==
    { Record("editor", "upload", "", t, p) : t \in TimelineStamps, p \in Partitions }
    \cup
    { Record("code", "set", "print(1)", t, p) : t \in TimelineStamps, p \in Partitions }

\* the records of a conversion whose main table is written twice: uploads,
\* edits with two bodies, Compile, Compile.Error and successful runs of one
\* partition at two times, and an edit and a Compile of a second partition
RepeatRecords ==
    { Record("code", "set", b, t, <<"s1", "a1">>) :
          b \in TimelineBodies, t \in TimelineStamps }
    \cup
    { Record(ea[1], ea[2], "", t, <<"s1", "a1">>) :
          ea \in TimelinePairs \ { <<"editor", "blocks">> }, t \in TimelineStamps }
    \cup
    { Record("code", "set", "print(1)", Num(100), <<"s2", "a1">>),
      Record("engine", "on_run", "", Num(100), <<"s2", "a1">>) }

\* the records of the mapper: pairs of every branch of the classification,
\* pairs outside it, and every form of timestamp
MapperPairs == { <<"code", "set">>, <<"editor", "reset">>, <<"editor", "load">>,
                 <<"editor", "run">>, <<"editor", "bogus">>,
                 <<"engine", "on_run">>, <<"engine", "start">>,
                 <<"instructor", "edit">>, <<"trace_step", "next">>,
                 <<"trace", "start">>, <<"worked_examples", "open">>,
                 <<"feedback", "Complete|Good">>, <<"feedback", "Editor Error">>,
                 <<"feedback", "No Errors">>,
                 <<"bogus", "set">>, <<"code", "get">> }

MapperStamps == { Null, Str(""), Str("None"), Num(0), Num(105), Str("10") }

MapperRecords ==
    { Record(ea[1], ea[2], "print(1)", t, <<"s1", "a1">>) :
          ea \in MapperPairs, t \in MapperStamps }

\* the actions and bodies of feedback records: every rule of the
\* sub-classification in lower case and in mixed case, labels that come close to
\* a rule (no bar, a longer word), and other labels
FeedbackActions ==
    { "analyzer|", "Analyzer|Hint", "editor error", "Editor Error", "syntax|",
      "Syntax|Bad", "complete|", "Complete|Good", "COMPLETE|", "runtime|",
      "Runtime|Zero", "runtime", "Runtime", "internal error", "Internal Error",
      "No Errors", "", "analyzer", "syntax", "complete", "runtime error" }

FeedbackBodies == { "", "bad input on line 3" }

\* the records of the timestamp test: an edit, a session start and a pair
\* outside the classification, with every form of timestamp and the
\* lower-case spelling of the None string
TimestampPairs == { <<"code", "set">>, <<"editor", "load">>, <<"bogus", "set">> }

TimestampStamps == { Null, Str(""), Str("None"), Str("none"), Num(0), Num(105),
                     Str("10") }

TimestampRecords ==
    { Record(ea[1], ea[2], "print(1)", t, <<"s1", "a1">>) :
          ea \in TimestampPairs, t \in TimestampStamps }

\* the records of repeated conversions in one process
RerunRecords ==
    { Record("code", "set", b, t, <<"s1", "a1">>) :
          b \in {"print(1)", "print(2)"}, t \in {Num(100), Num(110)} }

\* the records where a process runs either converter several times: one edit
\* at two timestamps
ProcessRecords ==
    { Record("code", "set", "print(1)", t, <<"s1", "a1">>) : t \in {Num(100), Num(110)} }

\* the records of the round trip: edits and successful runs of one subject at
\* the JSON numbers 0, 10 and 10.5
RoundTripRecords ==
    { Record("code", "set", b, t, <<"s1", "a1">>) :
          b \in {"print(1)", "print(2)"}, t \in {Num(0), Num(100), Num(105)} }
    \cup
    { Record("feedback", "complete|", "", t, <<"s1", "a1">>) :
          t \in {Num(0), Num(100), Num(105)} }

\* the records of two logs that share the events of one partition: an edit,
\* a Compile, a Compile.Error and a successful run of subject s1, and an edit,
\* a Compile and a successful run of subject s2
IsolationRecords ==
    { Record("code", "set", "print(1)", Num(100), <<"s1", "a1">>),
      Record("engine", "on_run", "", Num(100), <<"s1", "a1">>),
      Record("feedback", "syntax|", "", Num(110), <<"s1", "a1">>),
      Record("feedback", "complete|", "", Num(110), <<"s1", "a1">>),
      Record("code", "set", "print(2)", Num(100), <<"s2", "a1">>),
      Record("engine", "on_run", "", Num(100), <<"s2", "a1">>),
      Record("feedback", "complete|", "", Num(100), <<"s2", "a1">>) }

\* the students and the submission times of a VPL archive
VplStudents == {"s1", "s2"}

VplTimestamps == {1, 2}

\* submission directories as the archive lists them: (filename, contents)
\* pairs, two of them the same files in the two orders
SubmissionDirectories ==
    { << <<"a.py", "x">> >>,
      << <<"a.py", "y">> >>,
      << <<"b.py", "x">> >>,
      << <<"a.py", "x">>, <<"b.py", "x">> >>,
      << <<"b.py", "x">>, <<"a.py", "x">> >> }

\* submissions handed to log_code_state as dictionaries
Dictionaries == SubmissionDirectories \cup { <<>> }

\* the .ceg directory beside a submission: absent, or the set of its files
CegDirectories ==
    { [exists |-> FALSE, files |-> {}],
      [exists |-> TRUE, files |-> {"compilation.txt"}],
      [exists |-> TRUE, files |-> {"grade.txt"}],
      [exists |-> TRUE, files |-> {"execution.txt", "grade.txt"}] }

\* the one directory and the .ceg directories of repeated VPL conversions
RerunDirectories == { << <<"a.py", "x">> >> }

RerunCegDirectories ==
    { [exists |-> FALSE, files |-> {}],
      [exists |-> TRUE, files |-> {"execution.txt", "grade.txt"}] }

\* every layout of a .ceg directory: absent, or any of the three files
CegLayouts ==
    { [exists |-> FALSE, files |-> {}] }
    \cup { [exists |-> TRUE, files |-> files] :
               files \in SUBSET {"compilation.txt", "execution.txt", "grade.txt"} }

\* VPL code directories: sorted tuples of (filename, contents) pairs
VplCodes == { <<>>,
              << <<"a.py", "x">> >>,
              << <<"a.py", "y">> >>,
              << <<"b.py", "x">> >>,
              << <<"a.py", "x">>, <<"b.py", "x">> >> }

-----------------------------------------------------------------------------
(* The state after the module is imported and load_blockpy_logs (load_vpl_logs)
   has made its ProgSnap2 instance *)

NoCall == [outcome |-> "none", value |-> <<"", "">>]

\* one entry of the construction history of the VPL converter
VplMade(class, event_id) == [made |-> class, event_id |-> event_id]

\* mutant: the empty content is not reserved
InitialCodeFiles_unreserved == EmptyDict

\* ProgSnap2.__init__ of the BlockPy converter: self.code_files = {'': 0}
InitialCodeFiles == Put(EmptyDict, "", 0)

\* ProgSnap2.__init__ of the VPL converter: self.code_files = {tuple(): 0}
VplInitialCodeFiles == Put(EmptyDict, <<>>, 0)

Init ==
    /\ MAX_EVENT_ID = 0
    /\ main_table = <<>>
    /\ code_files = InitialCodeFiles
    /\ CODE_ID = 1
    /\ phase = "loading"
    /\ log = <<>>
    /\ last = NoCall
    /\ done = <<>>
    /\ calls = <<>>
    /\ vpl_code_files = VplInitialCodeFiles
    /\ vpl_CODE_ID = 1
    /\ vpl_calls = <<>>
    /\ vpl_EVENT_ID = 0
    /\ vpl_main_table = <<>>
    /\ vpl_phase = "loading"
    /\ vpl_log = << VplMade("ProgSnap2", None) >>

-----------------------------------------------------------------------------
(* log_blockpy_event(progsnap, record), called by load_blockpy_events for the
   next record of log.json *)

Returned(event, action) == [outcome |-> "returned", value |-> <<event, action>>]

Raised(event, action) == [outcome |-> "raised", value |-> <<event, action>>]

\* mutant: the loop takes the exception and goes on with the next record
caught == "loading"

\* the phase of the run after an exception has left log_blockpy_event: neither
\* the loop of load_blockpy_events nor load_blockpy_logs has a try, so the
\* exception ends the run before progsnap.export
uncaught == "failed"

\* the ValueError of int(record['timestamp']) leaves log_blockpy_event
RaisedValueError(event, action) == [outcome |-> "ValueError", value |-> <<event, action>>]

\* one entry of the call history of a store
Call(code, id, before, after) ==
    [code |-> code, CodeStateID |-> id, before |-> before, after |-> after]

\* mutant: the string None is not tested for
no_timestamp_falsy_only(record) == Falsy(record.timestamp)

\* the test that skips a record without a timestamp
no_timestamp(record) == Falsy(record.timestamp) \/ record.timestamp = Str("None")

log_blockpy_event(record) ==
    /\ phase = "loading"
    /\ Len(log) < MaxLog
    /\ log' = Append(log, record)
    /\ UNCHANGED <<done, vplVars>>
    /\ LET event == record.event
           action == record.action
           progsnap_event == map_blockpy_event_to_progsnap(event, action, record.body)
       IN  IF no_timestamp(record)
           THEN /\ last' = Returned(event, action)
                /\ UNCHANGED <<MAX_EVENT_ID, main_table, code_files, CODE_ID, phase, calls>>
           ELSE IF ValueError(record.timestamp)
           THEN \* blockpy_timestamp_to_iso8601 raises before the classification
                /\ last' = RaisedValueError(event, action)
                /\ phase' = uncaught
                /\ UNCHANGED <<MAX_EVENT_ID, main_table, code_files, CODE_ID, calls>>
           ELSE IF progsnap_event.kind = "raise"
           THEN \* UnclassifiedEventType leaves load_blockpy_logs: no export
                /\ last' = Raised(event, action)
                /\ phase' = uncaught
                /\ UNCHANGED <<MAX_EVENT_ID, main_table, code_files, CODE_ID, calls>>
           ELSE IF progsnap_event.kind = "none"
           THEN /\ last' = Returned(event, action)
                /\ UNCHANGED <<MAX_EVENT_ID, main_table, code_files, CODE_ID, phase, calls>>
           ELSE LET edit == progsnap_event.EventType = "File.Edit"
                    store == IF edit
                             THEN log_code_state(code_files, CODE_ID, record.body)
                             ELSE [ CodeStateID |-> None, code_files |-> code_files,
                                    CODE_ID |-> CODE_ID ]
                    new_event == Event(blockpy_timestamp_to_iso8601(record.timestamp),
                                       record.user_id, progsnap_event.EventType,
                                       record.assignment_id,
                                       chomp_iso_time_decimal(record.date_created),
                                       progsnap_event.Score, store.CodeStateID, Blank,
                                       optional_parameters(record), MAX_EVENT_ID,
                                       Len(log) + 1)
                IN  /\ code_files' = store.code_files
                    /\ CODE_ID' = store.CODE_ID
                    /\ calls' = IF edit
                                THEN Append(calls, Call(record.body, store.CodeStateID,
                                                        CODE_ID, store.CODE_ID))
                                ELSE calls
                    /\ MAX_EVENT_ID' = MAX_EVENT_ID + 1
                    /\ main_table' = Append(main_table, new_event)
                    /\ last' = Returned(event, action)
                    /\ UNCHANGED phase

(* ProgSnap2.export: export_main_table runs finalize_table and writes the rows;
   export_code_states writes code_files *)
export ==
    /\ phase = "loading"
    /\ main_table' = finalize_table(main_table)
    /\ phase' = "exported"
    /\ done' = Append(done, [ input |-> log, main_table |-> main_table',
                              code_files |-> code_files ])
    /\ UNCHANGED <<MAX_EVENT_ID, code_files, CODE_ID, log, last, calls, vplVars>>

\* ProgSnap2.export_code_states on a store whose keys are strings: the files
\* written, as (directory name under CodeStates, file name, contents)
export_code_states(files) ==
    { << files[code], "__main__.py", code >> : code \in DOMAIN files }

(* ProgSnap2.export_main_table called on the instance a second time: it runs
   finalize_table on the finalized main table and writes the rows again *)
export_main_table_again ==
    /\ phase = "exported"
    /\ main_table' = finalize_table(main_table)
    /\ phase' = "exported twice"
    /\ done' = Append(done, [ input |-> log, main_table |-> main_table',
                              code_files |-> code_files ])
    /\ UNCHANGED <<MAX_EVENT_ID, code_files, CODE_ID, log, last, calls, vplVars>>

(* load_blockpy_logs called once more in the same process: a new ProgSnap2
   instance; the class attribute Event.MAX_EVENT_ID is not reset *)
load_blockpy_logs ==
    /\ phase = "exported"
    /\ Len(done) < MaxRuns
    /\ main_table' = <<>>
    /\ code_files' = InitialCodeFiles
    /\ CODE_ID' = 1
    /\ phase' = "loading"
    /\ log' = <<>>
    /\ last' = NoCall
    /\ calls' = <<>>
    /\ UNCHANGED <<MAX_EVENT_ID, done, vplVars>>

(* The script run once more, in a new process: the module is loaded again, so
   Event.MAX_EVENT_ID is 0, and load_blockpy_logs makes its instance *)
main ==
    /\ phase = "exported"
    /\ Len(done) = 1
    /\ MAX_EVENT_ID' = 0
    /\ main_table' = <<>>
    /\ code_files' = InitialCodeFiles
    /\ CODE_ID' = 1
    /\ phase' = "loading"
    /\ log' = <<>>
    /\ last' = NoCall
    /\ calls' = <<>>
    /\ UNCHANGED <<done, vplVars>>

(* map_blockpy_event_to_progsnap called on a feedback record: log keeps the
   record, last the result *)
FeedbackResult(result, dictionary) ==
    [outcome |-> "mapped", value |-> [result |-> result, dictionary |-> dictionary]]

map_feedback_record(action, body) ==
    /\ phase = "loading"
    /\ Len(log) < MaxMapperLog
    /\ log' = Append(log, Record("feedback", action, body, Num(100), <<"s1", "a1">>))
    /\ last' = FeedbackResult(map_blockpy_event_to_progsnap("feedback", action, body),
                              feedback(action, body))
    /\ UNCHANGED <<MAX_EVENT_ID, main_table, code_files, CODE_ID, phase, done, calls,
                   vplVars>>

(* ProgSnap2.log_code_state(submission) of the BlockPy converter, called on
   the instance with a string *)
register(submission) ==
    /\ phase = "loading"
    /\ Len(calls) < MaxCalls
    /\ LET store == log_code_state(code_files, CODE_ID, submission)
       IN  /\ code_files' = store.code_files
           /\ CODE_ID' = store.CODE_ID
           /\ calls' = Append(calls, Call(submission, store.CodeStateID,
                                          CODE_ID, store.CODE_ID))
    /\ UNCHANGED <<MAX_EVENT_ID, main_table, phase, log, last, done, vplVars>>

(* ProgSnap2.log_code_state(submission) of the BlockPy converter, called on
   the instance with a dictionary of files *)
register_dictionary(submission) ==
    /\ phase = "loading"
    /\ Len(calls) < MaxCalls
    /\ LET store == log_code_state_items(code_files, CODE_ID, submission)
       IN  /\ code_files' = store.code_files
           /\ CODE_ID' = store.CODE_ID
           /\ calls' = Append(calls, Call(submission, store.CodeStateID,
                                          CODE_ID, store.CODE_ID))
    /\ UNCHANGED <<MAX_EVENT_ID, main_table, phase, log, last, done, vplVars>>

(* ProgSnap2.hash_code_directory(code) of the VPL converter *)
vpl_register(code) ==
    /\ Len(vpl_calls) < MaxCalls
    /\ LET store == vpl_hash_code_directory(vpl_code_files, vpl_CODE_ID, code)
       IN  /\ vpl_code_files' = store.code_files
           /\ vpl_CODE_ID' = store.CODE_ID
           /\ vpl_calls' = Append(vpl_calls, Call(code, store.CodeStateID,
                                                  vpl_CODE_ID, store.CODE_ID))
    /\ UNCHANGED <<MAX_EVENT_ID, main_table, code_files, CODE_ID, phase, log, last,
                   done, calls, vpl_EVENT_ID, vpl_main_table, vpl_phase, vpl_log>>

(* One turn of the loops of load_vpl_submissions: log_submit for a submission
   directory and log_ceg for the .ceg directory beside it. The students come
   one after the other and the directories of a student in sorted order. *)
VplSubmits == {i \in 1..Len(vpl_main_table) : vpl_main_table[i].event_type = "Submit"}

load_vpl_submission(student, timestamp, submission_directory, ceg) ==
    /\ vpl_phase = "loading"
    /\ Cardinality(VplSubmits) < MaxSubmissions
    /\ vpl_main_table # <<>> =>
           LET latest == vpl_main_table[Len(vpl_main_table)]
           IN  IF latest.subject_id = student
               THEN latest.server_timestamp < timestamp
               ELSE \A i \in 1..Len(vpl_main_table) :
                        vpl_main_table[i].subject_id # student
    /\ LET submission == log_submit(vpl_main_table, vpl_EVENT_ID, vpl_code_files,
                                    vpl_CODE_ID, timestamp, student,
                                    submission_directory)
           logged == IF ceg.exists
                     THEN log_ceg(submission.main_table, submission.EVENT_ID, student,
                                  timestamp, ceg.files,
                                  submission.main_table[submission.new_event].event_id)
                     ELSE submission
       IN  /\ vpl_main_table' = logged.main_table
           /\ vpl_EVENT_ID' = logged.EVENT_ID
           /\ vpl_code_files' = submission.code_files
           /\ vpl_CODE_ID' = submission.CODE_ID
           /\ vpl_calls' = Append(vpl_calls,
                  Call(submission.code, submission.CodeStateID, vpl_CODE_ID,
                       submission.CODE_ID)
                      @@ [submission_directory |-> submission_directory, ceg |-> ceg])
           /\ vpl_log' = vpl_log \o
                  [k \in 1..(Len(logged.main_table) - Len(vpl_main_table)) |->
                      VplMade("Event",
                              logged.main_table[Len(vpl_main_table) + k].event_id)]
    /\ UNCHANGED <<vpl_phase, blockpyVars>>

(* ProgSnap2.export of the VPL converter: export_main_table runs finalize_table *)
vpl_export ==
    /\ vpl_phase = "loading"
    /\ vpl_main_table' = vpl_finalize_table(vpl_main_table)
    /\ vpl_phase' = "exported"
    /\ UNCHANGED <<vpl_code_files, vpl_CODE_ID, vpl_calls, vpl_EVENT_ID, vpl_log,
                   blockpyVars>>

(* load_vpl_logs called once more in the same process: a new ProgSnap2
   instance; the class attribute Event.EVENT_ID is not reset *)
load_vpl_logs ==
    /\ vpl_phase = "exported"
    /\ Cardinality({k \in 1..Len(vpl_log) : vpl_log[k].made = "ProgSnap2"}) < MaxRuns
    /\ vpl_main_table' = <<>>
    /\ vpl_code_files' = VplInitialCodeFiles
    /\ vpl_CODE_ID' = 1
    /\ vpl_calls' = <<>>
    /\ vpl_phase' = "loading"
    /\ vpl_log' = Append(vpl_log, VplMade("ProgSnap2", None))
    /\ UNCHANGED <<vpl_EVENT_ID, blockpyVars>>

-----------------------------------------------------------------------------
(* Specifications *)

\* one conversion of a BlockPy log
Next == (\E record \in TimelineRecords : log_blockpy_event(record)) \/ export

Spec == Init /\ [][Next]_vars

\* one conversion of a log of uploads and edits
NextUploads == (\E record \in UploadRecords : log_blockpy_event(record)) \/ export

SpecUploads == Init /\ [][NextUploads]_vars

\* one conversion whose main table is written twice
NextRepeat ==
    \/ \E record \in RepeatRecords : log_blockpy_event(record)
    \/ export
    \/ export_main_table_again

SpecRepeat == Init /\ [][NextRepeat]_vars

\* the mapper alone, over feedback records
NextFeedback == \E action \in FeedbackActions, body \in FeedbackBodies :
                    map_feedback_record(action, body)

SpecFeedback == Init /\ [][NextFeedback]_vars

\* one conversion, over every kind of record the mapper can meet
NextMapper == \/ \E record \in MapperRecords :
                    Len(log) < MaxMapperLog /\ log_blockpy_event(record)
              \/ export

SpecMapper == Init /\ [][NextMapper]_vars

\* one conversion, over every form of timestamp
NextTimestamp == \/ \E record \in TimestampRecords :
                       Len(log) < MaxMapperLog /\ log_blockpy_event(record)
                 \/ export

SpecTimestamp == Init /\ [][NextTimestamp]_vars

\* several conversions in one process
NextRerun == \/ \E record \in RerunRecords :
                   Len(log) < MaxRerunLog /\ log_blockpy_event(record)
             \/ export
             \/ load_blockpy_logs

SpecRerun == Init /\ [][NextRerun]_vars

\* one conversion of the round-trip records
NextRoundTrip == (\E record \in RoundTripRecords : log_blockpy_event(record)) \/ export

SpecRoundTrip == Init /\ [][NextRoundTrip]_vars

\* two conversions in two processes, each of its own log
NextIsolation == \/ \E record \in IsolationRecords :
                       Len(log) < MaxIsolationLog /\ log_blockpy_event(record)
                 \/ export
                 \/ main

SpecIsolation == Init /\ [][NextIsolation]_vars

\* one conversion of a VPL archive
NextVpl == \/ \E student \in VplStudents, timestamp \in VplTimestamps,
                 submission_directory \in SubmissionDirectories,
                 ceg \in CegDirectories :
                   load_vpl_submission(student, timestamp, submission_directory, ceg)
           \/ vpl_export

SpecVpl == Init /\ [][NextVpl]_vars

\* one conversion of a VPL archive, over every layout of the .ceg directories
NextCeg == \/ \E student \in VplStudents, timestamp \in VplTimestamps,
                 ceg \in CegLayouts :
                   load_vpl_submission(student, timestamp, << <<"a.py", "x">> >>, ceg)
           \/ vpl_export

SpecCeg == Init /\ [][NextCeg]_vars

\* a process that runs one of the two converters, several times over
BlockPyIdle == /\ MAX_EVENT_ID = 0 /\ main_table = <<>> /\ log = <<>>
               /\ done = <<>> /\ phase = "loading"

VplIdle == /\ vpl_EVENT_ID = 0 /\ vpl_main_table = <<>> /\ vpl_phase = "loading"
           /\ Len(vpl_log) = 1

NextProcess ==
    \/ /\ VplIdle
       /\ \/ \E record \in ProcessRecords :
                Len(log) < MaxRerunLog /\ log_blockpy_event(record)
          \/ export
          \/ load_blockpy_logs
    \/ /\ BlockPyIdle
       /\ \/ \E student \in VplStudents, timestamp \in VplTimestamps,
                submission_directory \in RerunDirectories,
                ceg \in RerunCegDirectories :
                  load_vpl_submission(student, timestamp, submission_directory, ceg)
          \/ vpl_export
          \/ load_vpl_logs

SpecProcess == Init /\ [][NextProcess]_vars

\* the code-state stores of the two converters, called directly
NextStore == \/ \E submission \in Bodies : register(submission)
             \/ \E code \in VplCodes : vpl_register(code)

SpecStore == Init /\ [][NextStore]_vars

\* one conversion, by the one converter or by the other
NextEither == \/ VplIdle /\ Next
              \/ BlockPyIdle /\ NextVpl

SpecEither == Init /\ [][NextEither]_vars

\* multi-file submissions handed to the store of the BlockPy converter
NextDictionary == \E submission \in Dictionaries : register_dictionary(submission)

SpecDictionary == Init /\ [][NextDictionary]_vars

-----------------------------------------------------------------------------
(* Vocabulary of the properties *)

Rows == 1..Len(main_table)

Finalized == phase = "exported"

Max(S) == CHOOSE x \in S : \A y \in S : y <= x

Min(S) == CHOOSE x \in S : \A y \in S : x <= y

SamePartition(i, j) ==
    /\ main_table[i].SubjectID = main_table[j].SubjectID
    /\ main_table[i].AssignmentID = main_table[j].AssignmentID

IsEdit(i) == main_table[i].EventType = "File.Edit"

IsUpload(i) == main_table[i].EventType = "X-File.Upload"

\* the record row i was made from, and the ID the store holds for its body
RecordOf(i) == log[main_table[i].rec]

RegisteredID(i) == code_files[RecordOf(i).body]

\* the File.Edit rows of the partition of row i that stand behind row i
EditsAfter(i) == {j \in Rows : j > i /\ SamePartition(i, j) /\ IsEdit(j)}

\* an upload that the next File.Edit of its partition absorbs: no other upload
\* of the partition stands between the two
MatchedUpload(i) ==
    /\ IsUpload(i)
    /\ EditsAfter(i) # {}
    /\ ~\E k \in Rows : /\ i < k /\ k < Min(EditsAfter(i))
                        /\ SamePartition(i, k) /\ IsUpload(k)

\* the rows that bring a code state of their own, and the code state they bring
Sources(i) == {j \in Rows : SamePartition(i, j) /\ (IsEdit(j) \/ MatchedUpload(j))}

SourceValue(j) == IF IsEdit(j) THEN RegisteredID(j)
                  ELSE RegisteredID(Min(EditsAfter(j)))

-----------------------------------------------------------------------------
(* C1 as stated: after finalize_table the CodeStateID of an event is that of
   the most recent File.Edit of its partition at or before it in the final
   Order, and 0 when there is none, so that no event carries a code state
   introduced by a later event. *)
C1_EditsUpTo(i) == {j \in Rows : j <= i /\ SamePartition(i, j) /\ IsEdit(j)}

C1_Stated ==
    Finalized =>
        \A i \in Rows :
            main_table[i].CodeStateID =
                IF C1_EditsUpTo(i) = {} THEN 0 ELSE RegisteredID(Max(C1_EditsUpTo(i)))

(* C1 amended: after finalize_table the CodeStateID of an event is that of the
   most recent row of its partition at or before it that is a File.Edit or an
   upload absorbed by the next File.Edit (which takes that edit's code state);
   an event with no such row at or before it takes the code state of the first
   such row behind it, and 0 only when the partition has none. *)
C1_Expected(i) ==
    LET upTo == {j \in Sources(i) : j <= i}
    IN  IF upTo # {} THEN SourceValue(Max(upTo))
        ELSE IF Sources(i) # {} THEN SourceValue(Min(Sources(i)))
        ELSE 0

C1_CarryForward ==
    Finalized => \A i \in Rows : main_table[i].CodeStateID = C1_Expected(i)

\* an event ahead of the first edit of its partition took that edit's code
\* state, and a later event without code carries the most recent edit's
C1_Witness ==
    /\ Finalized
    /\ \E i, j, k \in Rows :
          /\ i < j /\ j < k /\ SamePartition(i, j) /\ SamePartition(j, k)
          /\ ~IsEdit(i) /\ ~IsUpload(i) /\ IsEdit(j) /\ ~IsEdit(k) /\ ~IsUpload(k)
          /\ main_table[i].CodeStateID = main_table[j].CodeStateID
          /\ main_table[k].CodeStateID = main_table[j].CodeStateID
          /\ main_table[j].CodeStateID > 0

-----------------------------------------------------------------------------
(* C2: when the log of one subject holds a File.Edit with body print(1) at
   timestamp 0, a File.Edit with body print(2) at timestamp 10 and a successful
   run after it, the conversion yields exactly 3 rows whose CodeStateID in final
   Order is 1, 2, 2, and code states 1 and 2 hold print(1) and print(2). *)
C2_Scenario ==
    << Record("code", "set", "print(1)", Num(0), <<"s1", "a1">>),
       Record("code", "set", "print(2)", Num(100), <<"s1", "a1">>),
       Record("feedback", "complete|", "", Num(105), <<"s1", "a1">>) >>

C2_RoundTrip ==
        (Finalized /\ log = C2_Scenario) =>
            /\ Len(main_table) = 3
            /\ main_table[1].CodeStateID = 1
            /\ main_table[2].CodeStateID = 2
            /\ main_table[3].CodeStateID = 2
            /\ code_files = [b \in Bodies \ {""} |-> IF b = "print(1)" THEN 1 ELSE 2]
                            @@ InitialCodeFiles

-----------------------------------------------------------------------------
(* C3: every run of the pipeline on the same sequence of input records yields
   the same main-table rows, EventID included, and the same content-to-ID
   mapping, whatever conversions ran earlier in the same process. *)
C3_Determinism ==
    \A m, n \in DOMAIN done :
        done[m].input = done[n].input =>
            /\ done[m].main_table = done[n].main_table
            /\ done[m].code_files = done[n].code_files

-----------------------------------------------------------------------------
(* The classification table of map_blockpy_event_to_progsnap, restated: the
   (event, action) pairs it covers *)
C4_EditorActions == { "load", "reset", "blocks", "text", "split", "instructor",
                      "history", "trace", "upload", "download", "changeIP",
                      "change", "import", "run", "on_run" }

C4_Covered(record) ==
    \/ record.event = "code" /\ record.action = "set"
    \/ record.event = "editor" /\ record.action \in C4_EditorActions
    \/ record.event \in { "engine", "trace_step", "feedback", "instructor", "trace",
                          "worked_examples" }

\* the timestamps log_blockpy_event takes for a position in time
C4_HasTimestamp(record) ==
    record.timestamp \notin { Null, Str(""), Str("None"), Num(0) }

LastRecord == log[Len(log)]

(* C4 as stated: for every record whose (event, action) pair the classification
   table does not cover, log_blockpy_event raises UnclassifiedEventType,
   whatever its other fields, the timestamp included, hold. *)
C4_Stated ==
    (log # <<>> /\ ~C4_Covered(LastRecord)) =>
        (last.outcome = "raised" /\ phase = "failed")

(* C4 amended: for every record that has a timestamp and whose (event, action)
   pair the classification table does not cover, log_blockpy_event raises
   UnclassifiedEventType and the conversion stops; a record without a timestamp
   (empty, null, the number 0 or the string None) is returned to the caller
   before it is classified, whatever its pair. *)
C4_UnclassifiedRaises ==
    log # <<>> =>
        /\ (~C4_Covered(LastRecord) /\ C4_HasTimestamp(LastRecord)) =>
               (last.outcome = "raised" /\ phase = "failed")
        /\ ~C4_HasTimestamp(LastRecord) =>
               last = [ outcome |-> "returned",
                        value |-> <<LastRecord.event, LastRecord.action>> ]

\* an uncovered record with a timestamp, met after an event was logged
C4_Witness ==
    /\ Len(log) >= 2
    /\ ~C4_Covered(LastRecord) /\ C4_HasTimestamp(LastRecord)
    /\ last.outcome = "raised"
    /\ Len(main_table) >= 1

-----------------------------------------------------------------------------
(* C5: within one ProgSnap2 instance any two File.Edit records with the same
   body get the same CodeStateID, whatever their subject or assignment and
   whatever contents were registered in between. *)
C5_GlobalDedup ==
    \A i, j \in Rows :
        (IsEdit(i) /\ IsEdit(j) /\ RecordOf(i).body = RecordOf(j).body) =>
            main_table[i].CodeStateID = main_table[j].CodeStateID

\* two edits of different subjects with one body, another body between them
C5_Witness ==
    \E i, j, k \in Rows :
        /\ IsEdit(i) /\ IsEdit(j) /\ IsEdit(k)
        /\ main_table[i].rec < main_table[k].rec /\ main_table[k].rec < main_table[j].rec
        /\ main_table[i].SubjectID # main_table[j].SubjectID
        /\ RecordOf(i).body = RecordOf(j).body
        /\ RecordOf(k).body \notin {RecordOf(i).body, ""}
        /\ main_table[i].CodeStateID = main_table[j].CodeStateID
        /\ main_table[i].CodeStateID > 0

-----------------------------------------------------------------------------
(* C6: after any sequence of register calls on one store the content-to-ID
   mapping is one-to-one, the IDs of the non-empty contents are 1, 2, 3, ... in
   order of first appearance, CODE_ID is the number of stored contents, and
   registering a known content returns its ID and leaves store and counter
   alone. *)
C6_FirstCall(history, code) == Min({k \in DOMAIN history : history[k].code = code})

\* the ID first appearance gives the content of call k
C6_ExpectedID(history, k, empty) ==
    IF history[k].code = empty THEN 0
    ELSE Cardinality({history[m].code :
                          m \in 1..C6_FirstCall(history, history[k].code)} \ {empty})

C6_StoreOK(files, id, history, empty) ==
    /\ DOMAIN files = {empty} \cup {history[k].code : k \in DOMAIN history}
    /\ \A c, d \in DOMAIN files : files[c] = files[d] => c = d
    /\ {files[c] : c \in DOMAIN files} = 0..(id - 1)
    /\ id = Cardinality(DOMAIN files)
    /\ \A k \in DOMAIN history :
          /\ history[k].CodeStateID = C6_ExpectedID(history, k, empty)
          /\ files[history[k].code] = history[k].CodeStateID
          /\ (history[k].code = empty \/ \E m \in 1..(k-1) : history[m].code = history[k].code)
                 => history[k].after = history[k].before

C6_RegisterBijection ==
    /\ C6_StoreOK(code_files, CODE_ID, calls, "")
    /\ C6_StoreOK(vpl_code_files, vpl_CODE_ID, vpl_calls, <<>>)

\* on both stores a content was registered again after another one
C6_Repeat(history, empty) ==
    \E k, m, n \in DOMAIN history :
        /\ k < m /\ m < n
        /\ history[k].code = history[n].code
        /\ history[m].code \notin {history[k].code, empty}
        /\ history[k].code # empty
        /\ history[n].CodeStateID = history[k].CodeStateID

C6_Witness == C6_Repeat(calls, "") /\ C6_Repeat(vpl_calls, <<>>)

-----------------------------------------------------------------------------
(* C7: registering the empty content (the empty string in the BlockPy
   converter, the empty tuple in the VPL converter) returns 0 and allocates no
   new ID, and no non-empty content is ever given ID 0. *)
C7_SentinelOK(files, history, empty) ==
    /\ \A k \in DOMAIN history :
          IF history[k].code = empty
          THEN history[k].CodeStateID = 0 /\ history[k].after = history[k].before
          ELSE history[k].CodeStateID # 0
    /\ \A c \in DOMAIN files : (files[c] = 0) <=> (c = empty)

C7_EmptySentinel ==
    /\ C7_SentinelOK(code_files, calls, "")
    /\ C7_SentinelOK(vpl_code_files, vpl_calls, <<>>)

\* the empty content was registered on both stores, after a non-empty one
C7_EmptySeen(history, empty) ==
    \E k, m \in DOMAIN history :
        k < m /\ history[k].code # empty /\ history[m].code = empty
              /\ history[m].CodeStateID = 0

C7_Witness == C7_EmptySeen(calls, "") /\ C7_EmptySeen(vpl_calls, <<>>)

-----------------------------------------------------------------------------
(* C8: after finalize_table the main table is ordered by ClientTimestamp, then
   by the position of the EventType in the fixed list, a type outside the list
   ranking behind every listed one; events equal on both keep the order they
   were logged in; at one ClientTimestamp a Compile stands before a
   Run.Program. *)
C8_Priority(type) ==
    CASE type = "Session.Start" -> 0
      [] type = "X-File.Upload" -> 1
      [] type = "File.Edit" -> 2
      [] type = "Submit" -> 3
      [] type = "Compile" -> 4
      [] type = "Run.Program" -> 5
      [] type = "Compile.Error" -> 6
      [] type = "Feedback.Grade" -> 7
      [] type = "Intervention" -> 8
      [] OTHER -> 9

C8_GlobalSort ==
    Finalized =>
        \A i, j \in Rows :
            i < j =>
                LET a == main_table[i]
                    b == main_table[j]
                IN  /\ a.ClientTimestamp <= b.ClientTimestamp
                    /\ a.ClientTimestamp = b.ClientTimestamp =>
                           /\ C8_Priority(a.EventType) <= C8_Priority(b.EventType)
                           /\ ~(a.EventType = "Run.Program" /\ b.EventType = "Compile")
                           /\ C8_Priority(a.EventType) = C8_Priority(b.EventType) =>
                                  a.rec < b.rec

\* at one timestamp a view change, a run and a Compile, logged in that order,
\* end as Compile, run, view change
C8_Witness ==
    /\ Finalized
    /\ Len(main_table) = 3
    /\ main_table[1].ClientTimestamp = main_table[3].ClientTimestamp
    /\ main_table[1].EventType = "Compile" /\ main_table[1].rec = 3
    /\ main_table[2].EventType = "Run.Program" /\ main_table[2].rec = 2
    /\ main_table[3].EventType = "X-View.Blocks" /\ main_table[3].rec = 1

-----------------------------------------------------------------------------
(* C9: when a File.Edit follows in sorted order, the most recent X-File.Upload
   of its partition not yet matched ends finalization with the CodeStateID of
   that File.Edit; an upload is matched to one edit only, the first File.Edit
   behind it. *)
\* the uploads of the partition still unmatched when row j is reached
C9_Pending(j) ==
    {i \in Rows : /\ i < j /\ SamePartition(i, j) /\ IsUpload(i)
                  /\ ~\E k \in Rows : i < k /\ k < j /\ SamePartition(i, k) /\ IsEdit(k)}

C9_UploadCoalescing ==
    Finalized =>
        \A j \in Rows :
            (IsEdit(j) /\ C9_Pending(j) # {}) =>
                main_table[Max(C9_Pending(j))].CodeStateID = RegisteredID(j)

\* an upload followed by two edits of different code took the first one's
C9_Witness ==
    /\ Finalized
    /\ \E i, j, k \in Rows :
          /\ i < j /\ j < k /\ SamePartition(i, j) /\ SamePartition(j, k)
          /\ IsUpload(i) /\ IsEdit(j) /\ IsEdit(k)
          /\ main_table[j].CodeStateID # main_table[k].CodeStateID
          /\ main_table[i].CodeStateID = main_table[j].CodeStateID

-----------------------------------------------------------------------------
(* C10: the Order of every event is None from construction until finalization;
   after finalize_table the event at row i of the sorted table has Order i (from
   0), so the Orders are 0..n-1 for the n logged events, each used once, and no
   logged event is dropped or duplicated. *)
C10_OrderAssignment ==
    IF Finalized
    THEN /\ Len(main_table) = MAX_EVENT_ID
         /\ \A i \in Rows : main_table[i].Order = i - 1
         /\ {main_table[i].EventID : i \in Rows} = 0..(MAX_EVENT_ID - 1)
    ELSE \A i \in Rows : main_table[i].Order = None

\* three events were logged and the sort moved the first of them
C10_Witness ==
    /\ Finalized
    /\ Len(main_table) = 3
    /\ main_table[1].rec # 1
    /\ main_table[3].Order = 2

-----------------------------------------------------------------------------
(* C11: after finalize_table every Compile.Error row has as ParentEventID the
   EventID of the latest Compile row of its partition that stands before it,
   and -1 exactly when no Compile of its partition stands before it; the
   parent is of the same partition and never stands later *)
IsCompile(i) == main_table[i].EventType = "Compile"

IsCompileError(i) == main_table[i].EventType = "Compile.Error"

C11_CompilesBefore(i) == {j \in Rows : j < i /\ SamePartition(i, j) /\ IsCompile(j)}

C11_CompileLinking ==
    Finalized =>
        \A i \in Rows :
            IsCompileError(i) =>
                /\ (main_table[i].ParentEventID = -1) <=> (C11_CompilesBefore(i) = {})
                /\ C11_CompilesBefore(i) # {} =>
                       main_table[i].ParentEventID =
                           main_table[Max(C11_CompilesBefore(i))].EventID
                /\ \A j \in Rows :
                       (IsCompile(j) /\ main_table[j].EventID = main_table[i].ParentEventID)
                           => (SamePartition(i, j) /\ j < i)

\* a Compile.Error linked to the Compile of its partition although a Compile
\* of another partition stands between the two
C11_Witness ==
    /\ Finalized
    /\ \E i, j, k \in Rows :
           /\ j < k /\ k < i
           /\ IsCompileError(i) /\ IsCompile(j) /\ IsCompile(k)
           /\ SamePartition(i, j) /\ ~SamePartition(i, k)
           /\ main_table[i].ParentEventID = main_table[j].EventID

-----------------------------------------------------------------------------
(* C12 as stated: when two logs hold the same events of a partition in the
   same relative order, the finalized CodeStateID, Score and ParentEventID of
   those events are equal in both conversions, whatever the events of the
   other partitions are *)
C12_InPartition(x, p) ==
    IF "user_id" \in DOMAIN x
    THEN x.user_id = p[1] /\ x.assignment_id = p[2]
    ELSE x.SubjectID = p[1] /\ x.AssignmentID = p[2]

\* the records (rows) of partition p in a log (table), in their order
C12_Projection(seq, p) ==
    LET Test(x) == C12_InPartition(x, p) IN SelectSeq(seq, Test)

\* the two conversions hold the same events of partition p
C12_SameEvents(p) ==
    /\ Len(done) = 2
    /\ C12_Projection(done[1].input, p) = C12_Projection(done[2].input, p)

C12_Stated ==
    \A p \in Partitions :
        C12_SameEvents(p) =>
            LET a == C12_Projection(done[1].main_table, p)
                b == C12_Projection(done[2].main_table, p)
            IN  /\ Len(a) = Len(b)
                /\ \A n \in 1..Len(a) :
                       /\ a[n].CodeStateID = b[n].CodeStateID
                       /\ a[n].Score = b[n].Score
                       /\ a[n].ParentEventID = b[n].ParentEventID

\* the content a CodeStateID stands for in the store of a conversion
C12_Content(run, id) == CHOOSE code \in DOMAIN run.code_files : run.code_files[code] = id

\* the event of the partition a ParentEventID stands for: its place among the
\* rows of the partition, or the value itself when it names no event
C12_Parent(rows, parent) ==
    IF \E k \in 1..Len(rows) : rows[k].EventID = parent
    THEN CHOOSE k \in 1..Len(rows) : rows[k].EventID = parent
    ELSE parent

(* C12: when two logs hold the same events of a partition in the same
   relative order, those events end both conversions with equal Score, with a
   CodeStateID that stands for the same code content and with a ParentEventID
   that stands for the same Compile event of the partition, or is -1 or empty
   in both, whatever the events of the other partitions are *)
C12_PartitionIsolation ==
    \A p \in Partitions :
        C12_SameEvents(p) =>
            LET a == C12_Projection(done[1].main_table, p)
                b == C12_Projection(done[2].main_table, p)
            IN  /\ Len(a) = Len(b)
                /\ \A n \in 1..Len(a) :
                       /\ a[n].Score = b[n].Score
                       /\ C12_Content(done[1], a[n].CodeStateID)
                              = C12_Content(done[2], b[n].CodeStateID)
                       /\ C12_Parent(a, a[n].ParentEventID)
                              = C12_Parent(b, b[n].ParentEventID)
                       /\ a[n].rec \in DOMAIN done[1].input
                       /\ done[1].input[a[n].rec] = done[2].input[b[n].rec]

\* two conversions with the same edit of one partition; the second log also
\* holds an edit of the other partition, which stands first
C12_Witness ==
    /\ C12_SameEvents(<<"s1", "a1">>)
    /\ done[1].input # done[2].input
    /\ \E n \in 1..Len(C12_Projection(done[2].main_table, <<"s1", "a1">>)) :
           LET a == C12_Projection(done[1].main_table, <<"s1", "a1">>)
               b == C12_Projection(done[2].main_table, <<"s1", "a1">>)
           IN  a[n].EventType = "File.Edit" /\ a[n].CodeStateID # b[n].CodeStateID

-----------------------------------------------------------------------------
(* C13: every Event constructed in a process has as EventID the number of
   Events constructed before it in that process, in both converters, so the
   EventIDs are pairwise distinct, grow in construction order and are never
   used twice, also when several ProgSnap2 instances follow each other *)

\* the main tables of the BlockPy conversions of the process, in their order
C13_Tables ==
    [k \in 1..Len(done) |-> done[k].main_table]
        \o (IF phase = "loading" THEN <<main_table>> ELSE <<>>)

\* the events constructed before row i of table t: those of the earlier
\* conversions and those made from earlier records of the same log
C13_Before(t, i) ==
    LET RECURSIVE Earlier(_)
        Earlier(u) == IF u = 0 THEN 0 ELSE Len(C13_Tables[u]) + Earlier(u - 1)
    IN  Earlier(t - 1)
        + Cardinality({j \in 1..Len(C13_Tables[t]) :
                          C13_Tables[t][j].rec < C13_Tables[t][i].rec})

\* the Events of the construction history of the VPL converter
C13_VplEvents == LET Test(x) == x.made = "Event" IN SelectSeq(vpl_log, Test)

C13_EventIDs ==
    /\ \A t \in 1..Len(C13_Tables) :
           \A i \in 1..Len(C13_Tables[t]) :
               /\ C13_Tables[t][i].EventID = C13_Before(t, i)
               /\ C13_Tables[t][i].EventID < MAX_EVENT_ID
               /\ \A u \in 1..Len(C13_Tables) :
                      \A j \in 1..Len(C13_Tables[u]) :
                          (C13_Tables[t][i].EventID = C13_Tables[u][j].EventID)
                              => (t = u /\ i = j)
    /\ \A k \in 1..Len(C13_VplEvents) : C13_VplEvents[k].event_id = k - 1
    /\ vpl_EVENT_ID = Len(C13_VplEvents)
    /\ \A i \in 1..Len(vpl_main_table) :
           /\ \E k \in 1..Len(C13_VplEvents) :
                  C13_VplEvents[k].event_id = vpl_main_table[i].event_id
           /\ \A j \in 1..Len(vpl_main_table) :
                  (vpl_main_table[i].event_id = vpl_main_table[j].event_id) => i = j

\* a second ProgSnap2 instance has made an Event after the first instance
\* made some
C13_Witness ==
    /\ Len(done) = 1
    /\ done[1].main_table # <<>>
    /\ phase = "loading"
    /\ \E i \in Rows : main_table[i].EventID = Len(done[1].main_table)

-----------------------------------------------------------------------------
(* C14 as stated: a record whose timestamp is empty or the string none is
   dropped: the call makes no event, registers no code state and returns the
   (event, action) pair of the record *)
C14_Call(stamps) ==
    /\ Len(log') = Len(log) + 1
    /\ log'[Len(log')].timestamp \in stamps

C14_Drops ==
    /\ UNCHANGED <<main_table, MAX_EVENT_ID, code_files, CODE_ID, calls, phase>>
    /\ last' = [ outcome |-> "returned",
                 value |-> << log'[Len(log')].event, log'[Len(log')].action >> ]

C14_Stated == [][ C14_Call({ Str(""), Null, Str("none") }) => C14_Drops ]_vars

(* C14: a record whose timestamp is empty (the empty string, null or the
   number 0) or the string None, spelled so, is dropped: the call makes no
   event, registers no code state and returns the (event, action) pair of the
   record; the string none is no sentinel, int() raises ValueError for it and
   the conversion stops *)
C14_TimestampLess ==
    [][ /\ C14_Call({ Str(""), Null, Num(0), Str("None") }) => C14_Drops
        /\ C14_Call({ Str("none") }) =>
               /\ last'.outcome = "ValueError"
               /\ phase' = "failed"
               /\ UNCHANGED <<main_table, MAX_EVENT_ID, code_files, CODE_ID, calls>>
      ]_vars

\* an edit with the timestamp None, met after an event was logged: it was
\* returned, and its body is not in the store
C14_Witness ==
    /\ Len(log) >= 2
    /\ LastRecord.timestamp = Str("None")
    /\ LastRecord.event = "code" /\ LastRecord.action = "set"
    /\ last = [ outcome |-> "returned", value |-> <<"code", "set">> ]
    /\ Len(main_table) = 1
    /\ main_table[1].EventType = "Session.Start"
    /\ LastRecord.body \notin DOMAIN code_files

-----------------------------------------------------------------------------
(* C15: every exported row of the main table has exactly one value for each
   column of the header, in the order of the header, and the empty string in
   every column its event does not use; the header is the fixed columns
   followed by the other optional columns met on the events, in alphabetical
   order *)

\* the columns of a header that are not fixed, in alphabetical order
C15_Additional(header, column_order) ==
    LET extra == Range(header) \ Range(column_order)
        Test(name) == name \in extra
    IN  SelectSeq(ParameterNames, Test)

\* uses[i] is the set of the columns the event of row i uses
C15_Aligned(csv, column_order, uses) ==
    /\ csv.header = column_order \o C15_Additional(csv.header, column_order)
    /\ \A i \in 1..Len(csv.rows) :
           /\ Len(csv.rows[i]) = Len(csv.header)
           /\ \A k \in 1..Len(csv.rows[i]) :
                  /\ k <= Len(csv.header) => csv.rows[i][k].of = csv.header[k]
                  /\ csv.rows[i][k].of \notin uses[i] => csv.rows[i][k].empty

\* the BlockPy converter
C15_RowHeaderAlignment ==
    Finalized =>
        C15_Aligned(export_main_table(main_table), ARBITRARY_COLUMN_ORDER,
                    [ i \in Rows |-> attributes(main_table[i])
                                        \cup optional_parameters(RecordOf(i)) ])

\* C15 for the VPL converter, where it holds
C15_VplRowHeaderAlignment ==
    vpl_phase = "exported" =>
        C15_Aligned(vpl_export_main_table(vpl_main_table), vpl_ARBITRARY_COLUMN_ORDER,
                    [ i \in 1..Len(vpl_main_table) |->
                          Range(vpl_ARBITRARY_COLUMN_ORDER)
                              \cup DOMAIN vpl_main_table[i].optional_parameters ])

\* a VPL table with a Compile.Error and a Feedback.Grade: the rows have the
\* columns of both kinds of event
C15_VplWitness ==
    /\ vpl_phase = "exported"
    /\ Len(vpl_export_main_table(vpl_main_table).header) = 12
    /\ \E i \in 1..Len(vpl_main_table) : vpl_main_table[i].event_type = "Submit"

-----------------------------------------------------------------------------
(* C16: an Event is not changed once it is constructed, but for Order,
   CodeStateID, Score and ParentEventID, which finalization writes, once and
   never again: Order on every event, CodeStateID and Score on every event
   that had none, ParentEventID on a Compile.Error only. finalize_table changes no
   EventID, SubjectID, AssignmentID, EventType, ClientTimestamp,
   ServerTimestamp or optional parameter of any event, and no other step
   changes an event at all *)
C16_Frame(e, f) ==
    /\ f.EventID = e.EventID
    /\ f.SubjectID = e.SubjectID
    /\ f.AssignmentID = e.AssignmentID
    /\ f.EventType = e.EventType
    /\ f.ClientTimestamp = e.ClientTimestamp
    /\ f.ServerTimestamp = e.ServerTimestamp
    /\ f.optional_parameters = e.optional_parameters
    /\ f.rec = e.rec

C16_Written(e, f) ==
    /\ e.Order = None /\ f.Order # None
    /\ IF e.CodeStateID = None THEN f.CodeStateID # None
                               ELSE f.CodeStateID = e.CodeStateID
    /\ IF e.Score = None THEN f.Score # None ELSE f.Score = e.Score
    /\ f.ParentEventID # e.ParentEventID =>
           (e.ParentEventID = Blank /\ e.EventType = "Compile.Error")

C16_EventLifecycle ==
    [][ IF phase = "loading" /\ phase' = "exported"
        THEN /\ Len(main_table') = Len(main_table)
             /\ \A i \in 1..Len(main_table) :
                    \E j \in 1..Len(main_table') :
                        /\ C16_Frame(main_table[i], main_table'[j])
                        /\ C16_Written(main_table[i], main_table'[j])
        ELSE /\ Len(main_table') >= Len(main_table)
             /\ \A i \in 1..Len(main_table) : main_table'[i] = main_table[i]
      ]_vars

\* a finalized table whose rows were moved by the sort, with a Compile.Error
\* that got its parent and a run that kept the Score it was created with
C16_Witness ==
    /\ Finalized
    /\ \E i \in Rows : main_table[i].rec # i
    /\ \E i \in Rows : IsCompileError(i) /\ main_table[i].ParentEventID >= 0
    /\ \E i \in Rows : RecordOf(i).action = "complete|" /\ main_table[i].Score = 1

-----------------------------------------------------------------------------
(* C17: two multi-file submissions with the same set of (filename, contents)
   pairs get the same CodeStateID, in whatever order their files are listed,
   and two submissions that differ in a file name or in the contents of a
   file get different CodeStateIDs *)
C17_SameFiles(a, b) == Range(a) = Range(b)

\* the BlockPy converter: log_code_state on dictionaries of files
C17_UploadOrderIndependence ==
    \A i, j \in 1..Len(calls) :
        /\ calls[i].CodeStateID >= 0
        /\ C17_SameFiles(calls[i].code, calls[j].code)
               <=> calls[i].CodeStateID = calls[j].CodeStateID

\* C17 for the VPL converter (log_submit), where it holds
C17_VplUploadOrderIndependence ==
    \A i, j \in 1..Len(vpl_calls) :
        /\ vpl_calls[i].CodeStateID >= 0
        /\ C17_SameFiles(vpl_calls[i].submission_directory,
                         vpl_calls[j].submission_directory)
               <=> vpl_calls[i].CodeStateID = vpl_calls[j].CodeStateID

\* the same two files submitted twice, listed in the two orders
C17_VplWitness ==
    \E i, j \in 1..Len(vpl_calls) :
        /\ Len(vpl_calls[i].submission_directory) = 2
        /\ vpl_calls[i].submission_directory # vpl_calls[j].submission_directory
        /\ C17_SameFiles(vpl_calls[i].submission_directory,
                         vpl_calls[j].submission_directory)
        /\ vpl_calls[i].CodeStateID = vpl_calls[j].CodeStateID

-----------------------------------------------------------------------------
(* C18: the baseline of a partition is the CodeStateID of its first event in
   sorted order that carries a CodeStateID once the uploads are coalesced (a
   File.Edit, or an upload that took the code state of the next File.Edit),
   and 0 when the partition has no such event; every event of the partition
   without a CodeStateID that stands before that first carrying event ends
   finalization with the baseline *)
C18_Carries(i) == IsEdit(i) \/ MatchedUpload(i)

C18_Baseline(i) == IF Sources(i) = {} THEN 0 ELSE SourceValue(Min(Sources(i)))

C18_InitialCodeState ==
    Finalized =>
        \A i \in Rows :
            (~C18_Carries(i) /\ \A j \in Sources(i) : i < j) =>
                main_table[i].CodeStateID = C18_Baseline(i)

\* a partition whose first event took the code state of the edit behind it,
\* beside a partition without any code, whose event got 0
C18_Witness ==
    /\ Finalized
    /\ \E i, j, k \in Rows :
          /\ i < j /\ SamePartition(i, j) /\ ~SamePartition(i, k)
          /\ ~C18_Carries(i) /\ j \in Sources(i) /\ \A m \in Sources(i) : j <= m
          /\ main_table[i].CodeStateID = main_table[j].CodeStateID
          /\ main_table[j].CodeStateID > 0
          /\ Sources(k) = {} /\ main_table[k].CodeStateID = 0

-----------------------------------------------------------------------------
(* C19: in the final walk an event without a CodeStateID receives the value
   carried for its partition and leaves the carried value as it is, and an
   event with a CodeStateID keeps it and makes it the carried value for the
   later events of the partition. The carried value behind a row is then the
   CodeStateID of that row in the final table, so: a row that came to the walk
   with a CodeStateID has that one, and a row that came without has the
   CodeStateID of the row of its partition just before it. In the BlockPy
   converter the partition is (SubjectID, AssignmentID), in the VPL converter
   the subject_id, where the carried value starts at 0. *)
C19_Before(i) == {j \in Rows : j < i /\ SamePartition(i, j)}

C19_BlockPy ==
    Finalized =>
        \A i \in Rows :
            IF C18_Carries(i)
            THEN main_table[i].CodeStateID = SourceValue(i)
            ELSE C19_Before(i) # {} =>
                     main_table[i].CodeStateID = main_table[Max(C19_Before(i))].CodeStateID

C19_VplRows == 1..Len(vpl_main_table)

C19_VplBefore(i) ==
    {j \in C19_VplRows : j < i /\ vpl_main_table[j].subject_id = vpl_main_table[i].subject_id}

\* the CodeStateID that log_submit got from the store for the Submit at row i
C19_VplSubmitted(i) ==
    vpl_calls[Cardinality({j \in VplSubmits :
                              vpl_main_table[j].event_id <= vpl_main_table[i].event_id})].CodeStateID

C19_Vpl ==
    vpl_phase = "exported" =>
        \A i \in C19_VplRows :
            vpl_main_table[i].code_state_id =
                IF i \in VplSubmits THEN C19_VplSubmitted(i)
                ELSE IF C19_VplBefore(i) = {} THEN 0
                ELSE vpl_main_table[Max(C19_VplBefore(i))].code_state_id

C19_CarryForward == C19_BlockPy /\ C19_Vpl

\* an edit followed by two events without code in its partition, both with
\* the code state of the edit, beside an event of another partition that has
\* another code state
C19_Witness ==
    /\ Finalized
    /\ \E i, j, k \in Rows :
          /\ i < j /\ j < k /\ SamePartition(i, j) /\ SamePartition(j, k)
          /\ IsEdit(i) /\ ~C18_Carries(j) /\ ~C18_Carries(k)
          /\ main_table[i].CodeStateID > 0
          /\ main_table[j].CodeStateID = main_table[i].CodeStateID
          /\ main_table[k].CodeStateID = main_table[i].CodeStateID

\* the VPL converter: the events of the .ceg directory of a second submission
\* carry the code state of that submission, not of the first
C19_VplWitness ==
    /\ vpl_phase = "exported"
    /\ \E i, j, k \in C19_VplRows :
          /\ i < j /\ j < k
          /\ i \in VplSubmits /\ j \in VplSubmits /\ k \notin VplSubmits
          /\ vpl_main_table[i].subject_id = vpl_main_table[k].subject_id
          /\ vpl_main_table[j].subject_id = vpl_main_table[k].subject_id
          /\ vpl_main_table[i].code_state_id # vpl_main_table[j].code_state_id
          /\ vpl_main_table[k].code_state_id = vpl_main_table[j].code_state_id

-----------------------------------------------------------------------------
(* C20: after finalize_table an event created without a Score has the Score
   of the latest event of its partition at or before it in final Order that
   was created with one, and 0 when there is none; an event created with a
   Score keeps it; a Score never comes from another partition *)
\* the Score row i was created with: that of a successful run, or None
C20_Created(i) ==
    IF RecordOf(i).event = "feedback" /\ startswith(lower(RecordOf(i).action), "complete|")
    THEN 1 ELSE None

C20_ScoredUpTo(i) ==
    {j \in Rows : j <= i /\ SamePartition(i, j) /\ C20_Created(j) # None}

C20_ScoreCarryForward ==
    Finalized =>
        \A i \in Rows :
            main_table[i].Score =
                IF C20_ScoredUpTo(i) = {} THEN 0 ELSE C20_Created(Max(C20_ScoredUpTo(i)))

\* a successful run, a later event of its partition that took its Score, and
\* an event of another partition behind the run that has Score 0
C20_Witness ==
    /\ Finalized
    /\ \E i, j, k \in Rows :
          /\ i < j /\ i < k /\ SamePartition(i, j) /\ ~SamePartition(i, k)
          /\ C20_Created(i) = 1 /\ C20_Created(j) = None
          /\ main_table[i].Score = 1 /\ main_table[j].Score = 1
          /\ main_table[k].Score = 0

-----------------------------------------------------------------------------
(* C21: after finalize_table no event of the main table has a null
   CodeStateID or a null Score, whatever the log: also when it holds no
   File.Edit at all, or an upload that no edit follows. The events of the VPL
   converter have no Score; there it is the code_state_id that is never null *)
C21_BlockPy ==
    Finalized =>
        \A i \in Rows : main_table[i].CodeStateID # None /\ main_table[i].Score # None

C21_Vpl ==
    vpl_phase = "exported" =>
        \A i \in 1..Len(vpl_main_table) : vpl_main_table[i].code_state_id # None

C21_EveryEventHasCodeState == C21_BlockPy /\ C21_Vpl

\* a finalized table without any File.Edit that holds an upload: its rows
\* have code state 0 and Score 0
C21_Witness ==
    /\ Finalized
    /\ Len(main_table) >= 2
    /\ \A i \in Rows : ~IsEdit(i)
    /\ \E i \in Rows : IsUpload(i)
    /\ \A i \in Rows : main_table[i].CodeStateID = 0 /\ main_table[i].Score = 0

\* the VPL converter: an event of a .ceg directory, made without a code
\* state, has one after finalization
C21_VplWitness ==
    /\ vpl_phase = "exported"
    /\ \E i \in 1..Len(vpl_main_table) :
          i \notin VplSubmits /\ vpl_main_table[i].code_state_id > 0

-----------------------------------------------------------------------------
(* C22: every X-File.Upload that no later File.Edit of its partition absorbed
   is left unmatched by the coalescing pass and is reported in the
   unmatched-upload diagnostics, without an error; the number of uploads
   reported unmatched is the number of uploads found minus the number
   remapped. The diagnostics are those of the coalescing pass of the export
   step, on the sorted table. *)
C22_SameIdentifier(t, i, j) ==
    t[i].SubjectID = t[j].SubjectID /\ t[i].AssignmentID = t[j].AssignmentID

\* the upload at row i of the sorted table t is absorbed by an edit: the first
\* File.Edit of its partition behind it, with no other upload in between
C22_Absorbed(t, i) ==
    \E j \in (i + 1)..Len(t) :
        /\ t[j].EventType = "File.Edit" /\ C22_SameIdentifier(t, i, j)
        /\ \A k \in (i + 1)..(j - 1) :
               C22_SameIdentifier(t, i, k) => t[k].EventType \notin {"File.Edit", "X-File.Upload"}

C22_NotAbsorbed(t) ==
    {i \in 1..Len(t) : t[i].EventType = "X-File.Upload" /\ ~C22_Absorbed(t, i)}

\* the rows the "Unmatched Upload:" lines are printed for
C22_Reported(uploads) ==
    {uploads.remapped_uploads[p] : p \in DOMAIN uploads.remapped_uploads}

C22_UnmatchedUploads ==
    [][ (phase = "loading" /\ phase' = "exported") =>
            LET ordered == list_sort(main_table)
                uploads == fix_uploads(ordered, 1, EmptyDict, 0, 0)
            IN  /\ C22_Reported(uploads) = C22_NotAbsorbed(ordered)
                /\ Cardinality(C22_Reported(uploads)) =
                       uploads.FOUND_UPLOADS - uploads.REMAPPED_UPLOADS
      ]_vars

(* what the pass does report: for each partition, the latest upload of the
   partition when no File.Edit of the partition stands behind it; an upload
   that a later upload of its partition replaced is neither remapped nor
   reported *)
C22_LatestPending(t) ==
    {i \in C22_NotAbsorbed(t) :
        \A k \in (i + 1)..Len(t) :
            C22_SameIdentifier(t, i, k) => t[k].EventType # "X-File.Upload"}

C22_ReportsLatestPending ==
    [][ (phase = "loading" /\ phase' = "exported") =>
            LET ordered == list_sort(main_table)
                uploads == fix_uploads(ordered, 1, EmptyDict, 0, 0)
            IN  /\ C22_Reported(uploads) = C22_LatestPending(ordered)
                /\ Cardinality(C22_Reported(uploads)) <=
                       uploads.FOUND_UPLOADS - uploads.REMAPPED_UPLOADS
      ]_vars

-----------------------------------------------------------------------------
(* C23: a record that maps to None (an engine action other than on_run, an
   instructor, trace or worked_examples record, the editor actions run and
   on_run) raises no error, appends no event, registers no code state and
   uses no EventID; and the handling of a record, whatever it is, leaves the
   events already in the main table at their place and with their Order *)
C23_MapsToNone(record) ==
    \/ record.event = "engine" /\ record.action # "on_run"
    \/ record.event \in {"instructor", "trace", "worked_examples"}
    \/ record.event = "editor" /\ record.action \in {"run", "on_run"}

C23_Handled == Len(log') = Len(log) + 1

C23_IgnoredLeaveNoTrace ==
    [][ C23_Handled =>
            /\ C23_MapsToNone(log'[Len(log')]) =>
                   /\ last' = Returned(log'[Len(log')].event, log'[Len(log')].action)
                   /\ phase' = phase
                   /\ main_table' = main_table
                   /\ code_files' = code_files /\ CODE_ID' = CODE_ID
                   /\ MAX_EVENT_ID' = MAX_EVENT_ID
            /\ Len(main_table') >= Len(main_table)
            /\ \A i \in Rows : main_table'[i] = main_table[i]
      ]_vars

\* an ignored record with a timestamp was handled after an event was logged
C23_Witness ==
    /\ Len(log) >= 2
    /\ C23_MapsToNone(LastRecord) /\ C4_HasTimestamp(LastRecord)
    /\ last = Returned(LastRecord.event, LastRecord.action)
    /\ Len(main_table) = 1 /\ MAX_EVENT_ID = 1
    /\ phase = "loading"

-----------------------------------------------------------------------------
(* C24: for a feedback record the action, compared without regard to case,
   selects the first rule that matches: prefix analyzer| gives
   Intervention/Analyzer; equal to 'editor error' or prefix syntax| gives
   Compile.Error; prefix complete| gives Run.Program, Success, Score 1; prefix
   runtime| or equal to 'runtime' gives Run.Program, Error; equal to
   'internal error' gives Run.Program, SystemError; every other action gives
   Intervention/Feedback. No feedback record is unclassified or dropped. *)
\* the rule each action label of the model falls under, label by label
C24_Rule(action) ==
    CASE action \in {"analyzer|", "Analyzer|Hint"} -> "analyzer"
      [] action \in {"editor error", "Editor Error", "syntax|", "Syntax|Bad"} -> "compile error"
      [] action \in {"complete|", "Complete|Good", "COMPLETE|"} -> "success"
      [] action \in {"runtime|", "Runtime|Zero", "runtime", "Runtime"} -> "runtime"
      [] action \in {"internal error", "Internal Error"} -> "internal error"
      [] OTHER -> "other"

C24_Has(dictionary, key, value) == key \in DOMAIN dictionary /\ dictionary[key] = value

C24_Selected(rule, dictionary) ==
    CASE rule = "analyzer" -> /\ dictionary.EventType = "Intervention"
                              /\ C24_Has(dictionary, "InterventionType", "Analyzer")
      [] rule = "compile error" -> dictionary.EventType = "Compile.Error"
      [] rule = "success" -> /\ dictionary.EventType = "Run.Program"
                             /\ C24_Has(dictionary, "ExecutionResult", "Success")
                             /\ C24_Has(dictionary, "Score", 1)
      [] rule = "runtime" -> /\ dictionary.EventType = "Run.Program"
                             /\ C24_Has(dictionary, "ExecutionResult", "Error")
      [] rule = "internal error" -> /\ dictionary.EventType = "Run.Program"
                                    /\ C24_Has(dictionary, "ExecutionResult", "SystemError")
      [] rule = "other" -> /\ dictionary.EventType = "Intervention"
                           /\ C24_Has(dictionary, "InterventionType", "Feedback")

C24_FeedbackClassification ==
    log # <<>> =>
        /\ last.outcome = "mapped"
        /\ last.value.result.kind = "event"
        /\ last.value.result.EventType = last.value.dictionary.EventType
        /\ last.value.result.Score = 1 <=> C24_Rule(LastRecord.action) = "success"
        /\ C24_Selected(C24_Rule(LastRecord.action), last.value.dictionary)
        /\ "Score" \in DOMAIN last.value.dictionary
               <=> C24_Rule(LastRecord.action) = "success"

\* a label in mixed case was classified by its lower-case rule, after a label
\* that comes close to a rule went to Intervention/Feedback
C24_Witness ==
    /\ Len(log) = 2
    /\ log[1].action = "complete" /\ log[2].action = "Complete|Good"
    /\ last.value.dictionary.EventType = "Run.Program"
    /\ last.value.dictionary.ExecutionResult = "Success"

-----------------------------------------------------------------------------
(* C25: for every submission with a .ceg directory exactly one of
   Compile.Error (execution.txt absent; with empty CompileMessageData when
   compilation.txt is absent too) and Run.Program (execution.txt present) is
   logged, a Feedback.Grade is logged if and only if grade.txt is present, no
   missing file is an error, and every event logged has as ParentEventID the
   event id of the Submit of that submission. The events logged for a
   submission are those made between its Submit and the next Submit. *)
C25_Rows == 1..Len(vpl_main_table)

\* the row of the Submit of the k-th submission
C25_Submit(k) ==
    CHOOSE i \in VplSubmits :
        Cardinality({j \in VplSubmits :
                        vpl_main_table[j].event_id <= vpl_main_table[i].event_id}) = k

C25_Logged(k) ==
    {i \in C25_Rows :
        /\ vpl_main_table[i].event_id > vpl_main_table[C25_Submit(k)].event_id
        /\ k < Len(vpl_calls) =>
               vpl_main_table[i].event_id < vpl_main_table[C25_Submit(k + 1)].event_id}

C25_OfType(k, types) == {i \in C25_Logged(k) : vpl_main_table[i].event_type \in types}

C25_CegBranches ==
    /\ Cardinality(VplSubmits) = Len(vpl_calls)
    /\ \A k \in 1..Len(vpl_calls) :
          LET ceg == vpl_calls[k].ceg
              submit == vpl_main_table[C25_Submit(k)]
          IN  IF ~ceg.exists THEN C25_Logged(k) = {}
              ELSE /\ Cardinality(C25_OfType(k, {"Compile.Error", "Run.Program"})) = 1
                   /\ Cardinality(C25_OfType(k, {"Compile.Error"})) = 1
                          <=> "execution.txt" \notin ceg.files
                   /\ \A i \in C25_OfType(k, {"Compile.Error"}) :
                          "compilation.txt" \notin ceg.files =>
                              vpl_main_table[i].optional_parameters["CompileMessageData"] = ""
                   /\ Cardinality(C25_OfType(k, {"Feedback.Grade"})) =
                          IF "grade.txt" \in ceg.files THEN 1 ELSE 0
                   /\ C25_Logged(k) = C25_OfType(k, {"Compile.Error", "Run.Program",
                                                    "Feedback.Grade"})
                   /\ \A i \in C25_Logged(k) :
                          vpl_main_table[i].optional_parameters["ParentEventID"] =
                              submit.event_id

\* a submission with an empty .ceg directory, logged as a Compile.Error with
\* empty data and no grade, after a submission with an execution and a grade
C25_Witness ==
    /\ Len(vpl_calls) = 2
    /\ vpl_calls[1].ceg = [exists |-> TRUE, files |-> {"execution.txt", "grade.txt"}]
    /\ vpl_calls[2].ceg = [exists |-> TRUE, files |-> {}]
    /\ Cardinality(C25_Logged(1)) = 2 /\ Cardinality(C25_Logged(2)) = 1
    /\ \A i \in C25_Logged(2) :
          /\ vpl_main_table[i].event_type = "Compile.Error"
          /\ vpl_main_table[i].optional_parameters["ParentEventID"] = 3

-----------------------------------------------------------------------------
(* C26: when a record raises UnclassifiedEventType, the main table, the
   code-state store, the code-state counter and the EventID counter are as
   they were before that record, no later record of the log is handled, and
   export is not reached *)
C26_FailureAtomicity ==
    [][ /\ last.outcome # "raised"
        /\ last'.outcome = "raised" =>
               /\ main_table' = main_table
               /\ code_files' = code_files
               /\ CODE_ID' = CODE_ID
               /\ MAX_EVENT_ID' = MAX_EVENT_ID
               /\ done' = done
      ]_vars

\* a record raised UnclassifiedEventType after an edit was logged: the event
\* and the code state of the edit are still there, and nothing was exported
C26_Witness ==
    /\ last.outcome = "raised"
    /\ ~C4_Covered(LastRecord)
    /\ Len(log) = 2 /\ Len(main_table) = 1 /\ IsEdit(1)
    /\ MAX_EVENT_ID = 1 /\ CODE_ID = 2
    /\ done = <<>>

-----------------------------------------------------------------------------
(* C27: finalize_table run again on a finalized main table, as a second
   export_main_table does, leaves the order of the rows and the Order,
   CodeStateID, Score and ParentEventID of every event as they were *)
C27_First == done[1].main_table

C27_Idempotent ==
    phase = "exported twice" =>
        /\ Len(main_table) = Len(C27_First)
        /\ \A i \in 1..Len(main_table) :
               /\ main_table[i].EventID = C27_First[i].EventID
               /\ main_table[i].Order = C27_First[i].Order
               /\ main_table[i].CodeStateID = C27_First[i].CodeStateID
               /\ main_table[i].Score = C27_First[i].Score
               /\ main_table[i].ParentEventID = C27_First[i].ParentEventID

\* the first finalization moved rows and matched an upload to a later edit,
\* and the table was finalized again
C27_Witness ==
    /\ phase = "exported twice"
    /\ C27_Idempotent
    /\ \E i \in 1..Len(main_table) : main_table[i].EventID # i
    /\ \E i, j \in 1..Len(main_table) :
           /\ i < j
           /\ main_table[i].EventType = "X-File.Upload"
           /\ main_table[j].EventType = "File.Edit"
           /\ main_table[i].CodeStateID = main_table[j].CodeStateID
           /\ main_table[j].CodeStateID # 0

-----------------------------------------------------------------------------
(* C28: after finalization every CodeStateID of the main table is an ID of the
   code-state store of the same run, 0 included, so export_code_states writes
   a CodeStates/<id> directory for every CodeStateID a row refers to *)
C28_Directories == { file[1] : file \in export_code_states(code_files) }

C28_ReferentialIntegrity ==
    phase \in {"exported", "exported twice"} =>
        /\ 0 \in C28_Directories
        /\ \A i \in 1..Len(main_table) :
               main_table[i].CodeStateID \in C28_Directories

\* a finalized table with a row that refers to the reserved state 0 and a row
\* that is not an edit and refers to the state of an edit before it
C28_Witness ==
    /\ phase = "exported"
    /\ C28_ReferentialIntegrity
    /\ \E i \in 1..Len(main_table) : main_table[i].CodeStateID = 0
    /\ \E i, j \in 1..Len(main_table) :
           /\ i < j
           /\ main_table[i].EventType = "File.Edit"
           /\ main_table[j].EventType # "File.Edit"
           /\ main_table[j].CodeStateID = main_table[i].CodeStateID
           /\ main_table[j].CodeStateID # 0

-----------------------------------------------------------------------------
(* C29: in the VPL converter, after finalize_table every Compile.Error,
   Run.Program and Feedback.Grade event has the code_state_id of the Submit
   event its ParentEventID names and a larger order than that Submit, also
   when several students submit at the same timestamp *)
C29_Rows == 1..Len(vpl_main_table)

C29_Derived ==
    {i \in C29_Rows : vpl_main_table[i].event_type \in
                          {"Compile.Error", "Run.Program", "Feedback.Grade"}}

\* the rows of the Submit events that the ParentEventID of row i names
C29_Parents(i) ==
    {j \in VplSubmits :
        vpl_main_table[j].event_id = vpl_main_table[i].optional_parameters["ParentEventID"]}

C29_SharesParentCodeState ==
    vpl_phase = "exported" =>
        \A i \in C29_Derived :
            /\ Cardinality(C29_Parents(i)) = 1
            /\ \A j \in C29_Parents(i) :
                   /\ vpl_main_table[i].code_state_id = vpl_main_table[j].code_state_id
                   /\ vpl_main_table[i].order > vpl_main_table[j].order

\* two students submit different files at the same timestamp, each with a
\* .ceg directory: the rows of the timestamp are the first student's Submit
\* and derived event, then the second student's, each derived event with the
\* code state of its own Submit
C29_Witness ==
    /\ vpl_phase = "exported"
    /\ C29_SharesParentCodeState
    /\ \E i, j \in C29_Derived :
           /\ vpl_main_table[i].subject_id # vpl_main_table[j].subject_id
           /\ vpl_main_table[i].server_timestamp = vpl_main_table[j].server_timestamp
           /\ vpl_main_table[i].code_state_id # vpl_main_table[j].code_state_id
           /\ vpl_main_table[i].code_state_id # 0
           /\ vpl_main_table[j].code_state_id # 0

=============================================================================
